---- MODULE Spec2Model ----
(***************************************************************************)
(* Monopile dashboard: Index page state, Map component, the map widget it  *)
(* drives through utils/mapUtils.ts, and the data helpers of dataUtils.ts. *)
(*                                                                         *)
(* Encoding conventions                                                    *)
(*  - a JavaScript value is a record [t, s, n]: t is the typeof-like tag,  *)
(*    s the characters of a string, n the number; `===` is record equality *)
(*  - a JavaScript object is a function from Keys to values, a key that is *)
(*    missing reads as Undefined (as property access does in JavaScript)   *)
(*  - coordinates are integers in tenths of a degree (4.9 is 49)           *)
(*  - a geometry's coordinates are nested three deep (polygons, rings,     *)
(*    positions) whatever its type; the accessors below recover the        *)
(*    nesting each geometry type has in GeoJSON                            *)
(*  - opacity is in percent (0.8 is 80)                                    *)
(***************************************************************************)
EXTENDS Integers, Sequences, FiniteSets, TLC

VARIABLES
  searchQuery,        \* Index: useState('')
  tableData,          \* Index: {columns, rows, idColumnKey}
  geoJsonData,        \* Index: FeatureCollection | null
  geoJsonColumns,     \* Index: ColumnOption[]
  geoJsonIdColumn,    \* Index: string | null
  selectedMonopileId, \* Index: string | null
  filteredIds,        \* Index: string[]
  selectedMapStyle,   \* Map: useState('osm-carto')
  geoJsonStyle,       \* Map: useState<MapStyle>
  monopileStyle,      \* Map: useState<MonopileStyle>
  map,                \* Map: map.current, the maplibre widget
  closure,            \* values captured by the callbacks of the initialize-map effect
  lastOp,             \* name of the operation the last step performed
  console,            \* messages logged or toasted by the last step
  sortColumn,         \* DataTable: useState<string | null>(null)
  sortDirection,      \* DataTable: useState<'asc' | 'desc'>('asc')
  download,           \* the file the browser was last handed for download
  tableUploads        \* the calls of handleTableFileUpload, in call order

vars == <<searchQuery, tableData, geoJsonData, geoJsonColumns, geoJsonIdColumn,
          selectedMonopileId, filteredIds, selectedMapStyle, geoJsonStyle,
          monopileStyle, map, closure, lastOp, console, sortColumn, sortDirection,
          download, tableUploads>>

indexVars == <<searchQuery, tableData, geoJsonData, geoJsonColumns, geoJsonIdColumn,
               selectedMonopileId, filteredIds>>

mapStateVars == <<selectedMapStyle, geoJsonStyle, monopileStyle>>

tableVars == <<sortColumn, sortDirection, download>>

(***************************************************************************)
(* Bounds of the model.                                                    *)
(***************************************************************************)
MaxFeatures == 2
MaxRows == 2
MaxIds == 1
MaxUploads == 2

(***************************************************************************)
(* JavaScript values and objects.                                          *)
(***************************************************************************)
Undefined == [t |-> "undefined", s |-> <<>>, n |-> 0]
Null == [t |-> "null", s |-> <<>>, n |-> 0]
Str(chars) == [t |-> "string", s |-> chars, n |-> 0]
Num(k) == [t |-> "number", s |-> <<>>, n |-> k]

\* JavaScript truthiness: undefined, null, 0 and '' are falsy.
Truthy(v) ==
  /\ v.t \notin {"undefined", "null"}
  /\ ~(v.t = "number" /\ v.n = 0)
  /\ ~(v.t = "string" /\ v.s = <<>>)

Keys == {"id", "pid", "name", "lat", "lng"}
EmptyObject == [k \in Keys |-> Undefined]

\* null for the string-or-null state cells that hold a column key
NoKey == ""

Max(a, b) == IF a >= b THEN a ELSE b
Min(a, b) == IF a <= b THEN a ELSE b

RECURSIVE Flatten(_)
Flatten(ss) == IF ss = <<>> THEN <<>> ELSE Head(ss) \o Flatten(Tail(ss))

Range(f) == {f[i] : i \in DOMAIN f}

(***************************************************************************)
(* GeoJSON geometry accessors.                                             *)
(***************************************************************************)
NullGeometry == [type |-> "null", coordinates |-> <<>>]

\* Polygon.coordinates / MultiLineString.coordinates: a list of rings or lines
Rings(g) == IF g.coordinates = <<>> THEN <<>> ELSE g.coordinates[1]
\* LineString.coordinates / MultiPoint.coordinates: a list of positions
Positions(g) == IF Rings(g) = <<>> THEN <<>> ELSE Rings(g)[1]
\* Point.coordinates: one position (empty when missing)
Position(g) == IF Positions(g) = <<>> THEN <<>> ELSE Positions(g)[1]

PointGeometry(pos) == [type |-> "Point", coordinates |-> << << <<pos>> >> >>]
LineStringGeometry(ps) == [type |-> "LineString", coordinates |-> << <<ps>> >>]
MultiPointGeometry(ps) == [type |-> "MultiPoint", coordinates |-> << <<ps>> >>]
PolygonGeometry(rings) == [type |-> "Polygon", coordinates |-> <<rings>>]
MultiLineStringGeometry(ls) == [type |-> "MultiLineString", coordinates |-> <<ls>>]
MultiPolygonGeometry(polys) == [type |-> "MultiPolygon", coordinates |-> polys]

Feature(g, props) == [geometry |-> g, properties |-> props]
FeatureCollection(fs) == [type |-> "FeatureCollection", features |-> fs]
NoGeoJson == [type |-> "null", features |-> <<>>]

\* a parsed JSON object that is not a FeatureCollection has no `features`
FeaturelessDocument == [type |-> "Feature", features |-> <<>>]
HasFeatures(geojson) == geojson.type = "FeatureCollection"

(***************************************************************************)
(* The map widget (maplibregl.Map) as far as mapUtils.ts uses it.          *)
(***************************************************************************)
SourceNames == {"osm-tiles", "geojson-data", "monopile-data"}
NoSource == [type |-> "none", tiles |-> <<>>, data |-> NoGeoJson]

Color(c) == [c |-> c, n |-> 0]
Number(k) == [c |-> "", n |-> k]
NoPaint == [p \in {} |-> Number(0)]

NullFilter == [op |-> "null", geom |-> "", key |-> "", values |-> <<>>]
\* ['==', '$type', g]
TypeFilter(g) == [op |-> "==", geom |-> g, key |-> "", values |-> <<>>]
\* ['in', ['get', key], ['literal', values]]
InFilter(key, values) == [op |-> "in", geom |-> "", key |-> key, values |-> values]
\* ['all', base, prop]
AllFilter(base, prop) ==
  [op |-> "all", geom |-> base.geom, key |-> prop.key, values |-> prop.values]

InitialCamera == [center |-> <<0, 20>>, zoom |-> 2]

createMap ==
  [loaded |-> FALSE,
   camera |-> InitialCamera,
   sources |-> [s \in SourceNames |-> NoSource],
   layers |-> <<>>,
   errors |-> {}]

getSource(m, id) == m.sources[id].type # "none"
getLayer(m, id) == \E i \in DOMAIN m.layers : m.layers[i].id = id

addSource(m, id, src) ==
  IF getSource(m, id)
  THEN [m EXCEPT !.errors = @ \cup {<<"addSource", id>>}]
  ELSE [m EXCEPT !.sources[id] = src]

removeSource(m, id) ==
  IF getSource(m, id)
  THEN [m EXCEPT !.sources[id] = NoSource]
  ELSE [m EXCEPT !.errors = @ \cup {<<"removeSource", id>>}]

RECURSIVE InsertBefore(_, _, _)
InsertBefore(ls, layer, beforeId) ==
  IF ls = <<>> THEN <<layer>>
  ELSE IF Head(ls).id = beforeId THEN <<layer>> \o ls
  ELSE <<Head(ls)>> \o InsertBefore(Tail(ls), layer, beforeId)

\* beforeId = "" stands for undefined: the layer goes on top of the stack
addLayer(m, layer, beforeId) ==
  IF getLayer(m, layer.id)
  THEN [m EXCEPT !.errors = @ \cup {<<"addLayer", layer.id>>}]
  ELSE IF beforeId = "" THEN [m EXCEPT !.layers = Append(@, layer)]
  ELSE [m EXCEPT !.layers = InsertBefore(@, layer, beforeId)]

removeLayer(m, id) ==
  IF getLayer(m, id)
  THEN [m EXCEPT !.layers = SelectSeq(@, LAMBDA l : l.id # id)]
  ELSE [m EXCEPT !.errors = @ \cup {<<"removeLayer", id>>}]

setFilter(m, id, f) ==
  IF getLayer(m, id)
  THEN [m EXCEPT !.layers =
          [i \in DOMAIN @ |-> IF @[i].id = id THEN [@[i] EXCEPT !.filter = f] ELSE @[i]]]
  ELSE [m EXCEPT !.errors = @ \cup {<<"setFilter", id>>}]

setPaintProperty(m, id, prop, val) ==
  IF getLayer(m, id)
  THEN [m EXCEPT !.layers =
          [i \in DOMAIN @ |->
             IF @[i].id = id
             THEN [@[i] EXCEPT !.paint = (prop :> val) @@ @]
             ELSE @[i]]]
  ELSE [m EXCEPT !.errors = @ \cup {<<"setPaintProperty", id>>}]

\* new maplibregl.LngLatBounds() and bounds.extend([lng, lat])
EmptyBounds == [empty |-> TRUE, w |-> 0, s |-> 0, e |-> 0, n |-> 0]
extend(b, pos) ==
  IF b.empty
  THEN [empty |-> FALSE, w |-> pos[1], s |-> pos[2], e |-> pos[1], n |-> pos[2]]
  ELSE [empty |-> FALSE, w |-> Min(b.w, pos[1]), s |-> Min(b.s, pos[2]),
        e |-> Max(b.e, pos[1]), n |-> Max(b.n, pos[2])]

RECURSIVE extendAll(_, _)
extendAll(b, ps) == IF ps = <<>> THEN b ELSE extendAll(extend(b, Head(ps)), Tail(ps))

\* map.fitBounds(bounds): centre on the box, zoom in as far as the box allows
fitBounds(m, b) ==
  LET span == Max(b.e - b.w, b.n - b.s)
  IN [m EXCEPT !.camera =
        [center |-> <<(b.w + b.e) \div 2, (b.s + b.n) \div 2>>,
         zoom |-> Max(1, 22 - span)]]

layerOf(m, id) == m.layers[CHOOSE i \in DOMAIN m.layers : m.layers[i].id = id]

(***************************************************************************)
(* utils/mapUtils.ts                                                       *)
(***************************************************************************)
Get(obj, k) == IF k \in Keys THEN obj[k] ELSE Undefined

\* `coord && coord.length >= 2` over a list of positions
ValidPositions(ps) == SelectSeq(ps, LAMBDA c : Len(c) >= 2)

\* One iteration of the forEach of addGeoJsonLayer: the positions handed to
\* bounds.extend, and whether the iteration throws (polygon[0] of a
\* MultiPolygon member without rings is undefined).
VisitFeature(f) ==
  LET g == f.geometry IN
  IF g.type = "null" THEN [throws |-> FALSE, positions |-> <<>>]
  ELSE IF g.type = "Point"
    THEN [throws |-> FALSE,
          positions |-> IF Len(Position(g)) >= 2 THEN <<Position(g)>> ELSE <<>>]
  ELSE IF g.type = "Polygon"
    THEN [throws |-> FALSE,
          positions |-> IF Len(Rings(g)) > 0 THEN ValidPositions(Rings(g)[1]) ELSE <<>>]
  ELSE IF g.type \in {"LineString", "MultiPoint"}
    THEN [throws |-> FALSE, positions |-> ValidPositions(Positions(g))]
  ELSE IF g.type = "MultiLineString"
    THEN [throws |-> FALSE,
          positions |-> Flatten([i \in DOMAIN Rings(g) |-> ValidPositions(Rings(g)[i])])]
  ELSE IF g.type = "MultiPolygon"
    THEN [throws |-> \E i \in DOMAIN g.coordinates : g.coordinates[i] = <<>>,
          positions |-> Flatten([i \in DOMAIN g.coordinates |->
                           IF g.coordinates[i] = <<>> THEN <<>>
                           ELSE ValidPositions(g.coordinates[i][1])])]
  ELSE [throws |-> FALSE, positions |-> <<>>]

GeoJsonPaint(layerId, style) ==
  IF layerId = "geojson-fill-layer"
    THEN ("fill-color" :> Color(style.color))
         @@ ("fill-opacity" :> Number((style.opacity * 5) \div 10))
  ELSE IF layerId = "geojson-line-layer"
    THEN ("line-color" :> Color(style.color))
         @@ ("line-width" :> Number(style.width))
         @@ ("line-opacity" :> Number(style.opacity))
  ELSE ("circle-radius" :> Number(style.width * 2))
       @@ ("circle-color" :> Color(style.color))
       @@ ("circle-opacity" :> Number(style.opacity))

\* lines 99-178: the bounds fit at the end of addGeoJsonLayer
FitGeoJsonBounds(m, geojson) ==
  LET visits == [i \in DOMAIN geojson.features |-> VisitFeature(geojson.features[i])]
      throws == ~HasFeatures(geojson) \/ \E i \in DOMAIN visits : visits[i].throws
      positions == Flatten([i \in DOMAIN visits |-> visits[i].positions])
      hasValidFeatures == positions # <<>>
      bounds == extendAll(EmptyBounds, positions)
  IN IF throws
       THEN [map |-> m, log |-> {"error: Error fitting bounds"}]
     ELSE IF hasValidFeatures /\ ~bounds.empty
       THEN [map |-> fitBounds(m, bounds), log |-> {"log: Fitted bounds to GeoJSON data"}]
     ELSE [map |-> m, log |-> {"warn: No valid geometries found in GeoJSON"}]

addGeoJsonLayer(m, geojson, style) ==
  LET m1 == IF getSource(m, "geojson-data")
            THEN LET a == IF getLayer(m, "geojson-fill-layer")
                          THEN removeLayer(m, "geojson-fill-layer") ELSE m
                     b == IF getLayer(a, "geojson-line-layer")
                          THEN removeLayer(a, "geojson-line-layer") ELSE a
                     c == IF getLayer(b, "geojson-point-layer")
                          THEN removeLayer(b, "geojson-point-layer") ELSE b
                 IN removeSource(c, "geojson-data")
            ELSE m
      m2 == addSource(m1, "geojson-data",
                      [type |-> "geojson", tiles |-> <<>>, data |-> geojson])
      m3 == addLayer(m2, [id |-> "geojson-fill-layer", type |-> "fill",
                          source |-> "geojson-data",
                          paint |-> GeoJsonPaint("geojson-fill-layer", style),
                          filter |-> TypeFilter("Polygon")], "")
      m4 == addLayer(m3, [id |-> "geojson-line-layer", type |-> "line",
                          source |-> "geojson-data",
                          paint |-> GeoJsonPaint("geojson-line-layer", style),
                          filter |-> NullFilter], "")
      m5 == addLayer(m4, [id |-> "geojson-point-layer", type |-> "circle",
                          source |-> "geojson-data",
                          paint |-> GeoJsonPaint("geojson-point-layer", style),
                          filter |-> TypeFilter("Point")], "")
  IN FitGeoJsonBounds(m5, geojson)

GeoJsonLayers == <<"geojson-fill-layer", "geojson-line-layer", "geojson-point-layer">>

\* the geometry-class filter each overlay layer was created with
BaseFilter(layerId) ==
  IF layerId = "geojson-point-layer" THEN TypeFilter("Point")
  ELSE IF layerId = "geojson-fill-layer" THEN TypeFilter("Polygon")
  ELSE NullFilter

FilterGeoJsonLayer(m, layerId, propertyKey, propertyValues) ==
  IF ~getLayer(m, layerId) THEN m
  ELSE IF Len(propertyValues) = 0 THEN setFilter(m, layerId, BaseFilter(layerId))
  ELSE LET baseFilter == BaseFilter(layerId)
           propertyFilter == InFilter(propertyKey, propertyValues)
       IN IF baseFilter # NullFilter
          THEN setFilter(m, layerId, AllFilter(baseFilter, propertyFilter))
          ELSE setFilter(m, layerId, propertyFilter)

filterGeoJsonByProperty(m, propertyKey, propertyValues) ==
  IF ~getSource(m, "geojson-data") THEN m
  ELSE FilterGeoJsonLayer(
         FilterGeoJsonLayer(
           FilterGeoJsonLayer(m, GeoJsonLayers[1], propertyKey, propertyValues),
           GeoJsonLayers[2], propertyKey, propertyValues),
         GeoJsonLayers[3], propertyKey, propertyValues)

updateGeoJsonStyle(m, style) ==
  IF ~getSource(m, "geojson-data") THEN m
  ELSE
    LET a == setPaintProperty(m, "geojson-fill-layer", "fill-color", Color(style.color))
        b == setPaintProperty(a, "geojson-fill-layer", "fill-opacity",
                              Number((style.opacity * 5) \div 10))
        c == setPaintProperty(b, "geojson-line-layer", "line-color", Color(style.color))
        d == setPaintProperty(c, "geojson-line-layer", "line-width", Number(style.width))
        e == setPaintProperty(d, "geojson-line-layer", "line-opacity", Number(style.opacity))
        f == setPaintProperty(e, "geojson-point-layer", "circle-color", Color(style.color))
        g == setPaintProperty(f, "geojson-point-layer", "circle-radius",
                              Number(style.width * 2))
    IN setPaintProperty(g, "geojson-point-layer", "circle-opacity", Number(style.opacity))

\* `m.lat && m.lng`
HasCoordinates(monopile) == Truthy(monopile["lat"]) /\ Truthy(monopile["lng"])

\* {type:'Feature', geometry:{type:'Point', coordinates:[lng, lat]},
\*  properties:{id: monopile[idColumnKey], ...monopile}}
MonopileFeature(monopile, idColumnKey) ==
  Feature(PointGeometry(<<monopile["lng"].n, monopile["lat"].n>>),
          [k \in Keys |->
             IF k = "id" /\ monopile["id"] = Undefined
             THEN Get(monopile, idColumnKey)
             ELSE monopile[k]])

createGeoJsonFromMonopiles(monopiles, idColumnKey) ==
  LET valid == SelectSeq(monopiles, HasCoordinates)
  IN FeatureCollection([i \in DOMAIN valid |-> MonopileFeature(valid[i], idColumnKey)])

MonopilePaint(style) ==
  ("circle-color" :> Color(style.color))
  @@ ("circle-radius" :> Number(style.size))
  @@ ("circle-stroke-color" :> Color(style.borderColor))
  @@ ("circle-stroke-width" :> Number(style.borderWidth))

\* a variant that adds the source and the layer without removing the old ones
addMonopiles_append(m, monopiles, idColumnKey, style) ==
  LET geojson == createGeoJsonFromMonopiles(monopiles, idColumnKey)
      m2 == addSource(m, "monopile-data",
                      [type |-> "geojson", tiles |-> <<>>, data |-> geojson])
  IN addLayer(m2, [id |-> "monopile-layer", type |-> "circle",
                   source |-> "monopile-data",
                   paint |-> MonopilePaint(style),
                   filter |-> NullFilter], "")

addMonopiles(m, monopiles, idColumnKey, style) ==
  LET m1 == IF getSource(m, "monopile-data")
            THEN removeSource(removeLayer(m, "monopile-layer"), "monopile-data")
            ELSE m
      geojson == createGeoJsonFromMonopiles(monopiles, idColumnKey)
      features == geojson.features
      m2 == addSource(m1, "monopile-data",
                      [type |-> "geojson", tiles |-> <<>>, data |-> geojson])
      m3 == addLayer(m2, [id |-> "monopile-layer", type |-> "circle",
                          source |-> "monopile-data",
                          paint |-> MonopilePaint(style),
                          filter |-> NullFilter], "")
  IN IF Len(features) > 0
     THEN fitBounds(m3, extendAll(EmptyBounds,
                      [i \in DOMAIN features |-> Position(features[i].geometry)]))
     ELSE m3

updateMonopileStyle(m, style) ==
  IF ~getSource(m, "monopile-data") THEN m
  ELSE
    LET a == setPaintProperty(m, "monopile-layer", "circle-color", Color(style.color))
        b == setPaintProperty(a, "monopile-layer", "circle-radius", Number(style.size))
        c == setPaintProperty(b, "monopile-layer", "circle-stroke-color",
                              Color(style.borderColor))
    IN setPaintProperty(c, "monopile-layer", "circle-stroke-width",
                        Number(style.borderWidth))

\* mutant: the id filter shares the load path and re-fits the camera to the points
filterMonopilesByIds_refit(m, ids, idColumnKey) ==
  IF ~getSource(m, "monopile-data") THEN m
  ELSE LET features == m.sources["monopile-data"].data.features
           m1 == setFilter(m, "monopile-layer",
                           IF Len(ids) = 0 THEN NullFilter ELSE InFilter(idColumnKey, ids))
       IN IF features = <<>> THEN m1
          ELSE fitBounds(m1, extendAll(EmptyBounds,
                           [i \in DOMAIN features |-> Position(features[i].geometry)]))

filterMonopilesByIds(m, ids, idColumnKey) ==
  IF ~getSource(m, "monopile-data") THEN m
  ELSE IF Len(ids) = 0 THEN setFilter(m, "monopile-layer", NullFilter)
  ELSE setFilter(m, "monopile-layer", InFilter(idColumnKey, ids))

\* the tile URL templates, split at the {s} placeholder
MAP_STYLES ==
  << [id |-> "osm-standard", url |-> <<"https://tile.openstreetmap.org/{z}/{x}/{y}.png">>],
     [id |-> "osm-carto",
      url |-> <<"https://cartodb-basemaps-a.global.ssl.fastly.net/light_all/{z}/{x}/{y}.png">>],
     [id |-> "osm-topo", url |-> <<"https://", "{s}", ".tile.opentopomap.org/{z}/{x}/{y}.png">>],
     [id |-> "osm-humanitarian",
      url |-> <<"https://", "{s}", ".tile.openstreetmap.fr/hot/{z}/{x}/{y}.png">>] >>

\* url.replace('{s}', 'a'): the first occurrence only
RECURSIVE ReplaceFirst(_, _, _)
ReplaceFirst(parts, from, to) ==
  IF parts = <<>> THEN <<>>
  ELSE IF Head(parts) = from THEN <<to>> \o Tail(parts)
  ELSE <<Head(parts)>> \o ReplaceFirst(Tail(parts), from, to)

\* mutant: the base style is swapped by resetting the whole widget style
setMapStyle_reset(m, styleId) ==
  IF ~\E i \in DOMAIN MAP_STYLES : MAP_STYLES[i].id = styleId THEN m
  ELSE
    LET style == MAP_STYLES[CHOOSE i \in DOMAIN MAP_STYLES : MAP_STYLES[i].id = styleId]
        m1 == [m EXCEPT !.sources = [s \in SourceNames |-> NoSource], !.layers = <<>>]
        m2 == addSource(m1, "osm-tiles",
                        [type |-> "raster",
                         tiles |-> ReplaceFirst(style.url, "{s}", "a"),
                         data |-> NoGeoJson])
    IN addLayer(m2, [id |-> "osm-layer", type |-> "raster", source |-> "osm-tiles",
                     paint |-> NoPaint, filter |-> NullFilter], "")

setMapStyle(m, styleId) ==
  IF ~\E i \in DOMAIN MAP_STYLES : MAP_STYLES[i].id = styleId THEN m
  ELSE
    LET style == MAP_STYLES[CHOOSE i \in DOMAIN MAP_STYLES : MAP_STYLES[i].id = styleId]
        m1 == IF getSource(m, "osm-tiles")
              THEN removeSource(removeLayer(m, "osm-layer"), "osm-tiles")
              ELSE m
        m2 == addSource(m1, "osm-tiles",
                        [type |-> "raster",
                         tiles |-> ReplaceFirst(style.url, "{s}", "a"),
                         data |-> NoGeoJson])
    IN addLayer(m2, [id |-> "osm-layer", type |-> "raster", source |-> "osm-tiles",
                     paint |-> NoPaint, filter |-> NullFilter],
                IF m2.layers = <<>> THEN "" ELSE m2.layers[1].id)

(***************************************************************************)
(* utils/dataUtils.ts                                                      *)
(***************************************************************************)
Digit(d) == <<"0", "1", "2", "3", "4", "5", "6", "7", "8", "9">>[d + 1]

RECURSIVE Digits(_)
Digits(k) == IF k < 10 THEN <<Digit(k)>> ELSE Digits(k \div 10) \o <<Digit(k % 10)>>

Chars_undefined == <<"u", "n", "d", "e", "f", "i", "n", "e", "d">>
Chars_null == <<"n", "u", "l", "l">>
Chars_unknown == <<"u", "n", "k", "n", "o", "w", "n">>

\* String(v); a number k stands for k / 10
String(v) ==
  IF v.t = "string" THEN v.s
  ELSE IF v.t = "undefined" THEN Chars_undefined
  ELSE IF v.t = "null" THEN Chars_null
  ELSE LET a == IF v.n < 0 THEN 0 - v.n ELSE v.n
       IN (IF v.n < 0 THEN <<"-">> ELSE <<>>)
          \o Digits(a \div 10)
          \o (IF a % 10 = 0 THEN <<>> ELSE <<".", Digit(a % 10)>>)

UpperCase == <<"A", "B", "C", "D", "E", "F", "G", "H", "I", "J", "K", "L", "M",
               "N", "O", "P", "Q", "R", "S", "T", "U", "V", "W", "X", "Y", "Z">>
LowerCase == <<"a", "b", "c", "d", "e", "f", "g", "h", "i", "j", "k", "l", "m",
               "n", "o", "p", "q", "r", "s", "t", "u", "v", "w", "x", "y", "z">>

toLowerCase(chars) ==
  [i \in DOMAIN chars |->
     IF \E j \in DOMAIN UpperCase : UpperCase[j] = chars[i]
     THEN LowerCase[CHOOSE j \in DOMAIN UpperCase : UpperCase[j] = chars[i]]
     ELSE chars[i]]

\* haystack.includes(needle)
includes(haystack, needle) ==
  \E i \in 0..(Len(haystack) - Len(needle)) :
    \A j \in 1..Len(needle) : haystack[i + j] = needle[j]

\* the predicate filterMonopiles passes to Array.filter
MatchesQuery(monopile, lowerQuery, idColumnKey) ==
  \/ idColumnKey # NoKey
     /\ includes(toLowerCase(String(Get(monopile, idColumnKey))), lowerQuery)
  \/ \E key \in Keys :
       /\ monopile[key] # Undefined
       /\ includes(toLowerCase(String(monopile[key])), lowerQuery)

\* a variant that returns the matching rows last to first
filterMonopiles_reversed(monopiles, query, idColumnKey) ==
  LET kept == IF query = <<>> THEN monopiles
              ELSE SelectSeq(monopiles,
                             LAMBDA m : MatchesQuery(m, toLowerCase(query), idColumnKey))
  IN [i \in DOMAIN kept |-> kept[Len(kept) + 1 - i]]

filterMonopiles(monopiles, query, idColumnKey) ==
  IF query = <<>> THEN monopiles
  ELSE SelectSeq(monopiles, LAMBDA m : MatchesQuery(m, toLowerCase(query), idColumnKey))

\* a variant that stops at the first row carrying the identifier
updateMonopileCoordinates_first(monopiles, idColumnKey, id, lat, lng) ==
  [i \in DOMAIN monopiles |->
     IF /\ Get(monopiles[i], idColumnKey) = id
        /\ \A j \in 1..(i - 1) : Get(monopiles[j], idColumnKey) # id
     THEN [monopiles[i] EXCEPT !["lat"] = lat, !["lng"] = lng]
     ELSE monopiles[i]]

updateMonopileCoordinates(monopiles, idColumnKey, id, lat, lng) ==
  [i \in DOMAIN monopiles |->
     IF Get(monopiles[i], idColumnKey) = id
     THEN [monopiles[i] EXCEPT !["lat"] = lat, !["lng"] = lng]
     ELSE monopiles[i]]

\* Object.keys, in the order the catalogue objects list their keys
KeyOrder == <<"id", "pid", "name", "lat", "lng">>
ObjectKeys(obj) == SelectSeq(KeyOrder, LAMBDA k : obj[k] # Undefined)

extractGeoJsonIdColumns(geojson) ==
  IF geojson.features = <<>> THEN <<>> ELSE ObjectKeys(geojson.features[1].properties)

\* a variant whose workbook reader yields an empty table for a corrupt file
parseFileData_lenient(file) ==
  IF file.ext \in {"csv", "xlsx", "xls"}
  THEN [throws |-> FALSE,
        data |-> [columns |-> IF file.rows = <<>> THEN <<>> ELSE ObjectKeys(file.rows[1]),
                  rows |-> file.rows,
                  idColumnKey |-> NoKey]]
  ELSE [throws |-> TRUE, data |-> [columns |-> <<>>, rows |-> <<>>, idColumnKey |-> NoKey]]

\* a table file: its name and extension, whether its reader can read it and
\* the records it yields.  Papa.parse always completes and resolves;
\* XLSX.read throws on a file it cannot read
parseFileData(file) ==
  IF file.ext = "csv" \/ (file.ext \in {"xlsx", "xls"} /\ file.parses)
  THEN [throws |-> FALSE,
        data |-> [columns |-> IF file.rows = <<>> THEN <<>> ELSE ObjectKeys(file.rows[1]),
                  rows |-> file.rows,
                  idColumnKey |-> NoKey]]
  ELSE [throws |-> TRUE, data |-> [columns |-> <<>>, rows |-> <<>>, idColumnKey |-> NoKey]]

(***************************************************************************)
(* utils/mapUtils.ts: extractMonopilesFromGeoJson                          *)
(***************************************************************************)
\* mutant: the position is read as [lat, lng] instead of [lng, lat]
ExtractedMonopile_swapped(feature, idColumnKey) ==
  LET properties == feature.properties
      coordinates == Position(feature.geometry)
  IN [k \in Keys |->
        IF k = "lat" THEN Num(coordinates[1])
        ELSE IF k = "lng" THEN Num(coordinates[2])
        ELSE IF properties[k] # Undefined THEN properties[k]
        ELSE IF k = "id"
          THEN IF Truthy(Get(properties, idColumnKey))
               THEN Get(properties, idColumnKey) ELSE Str(Chars_unknown)
        ELSE Undefined]

ExtractedMonopile(feature, idColumnKey) ==
  LET properties == feature.properties
      coordinates == Position(feature.geometry)
  IN [k \in Keys |->
        IF k = "lat" THEN Num(coordinates[2])
        ELSE IF k = "lng" THEN Num(coordinates[1])
        ELSE IF properties[k] # Undefined THEN properties[k]
        ELSE IF k = "id"
          THEN IF Truthy(Get(properties, idColumnKey))
               THEN Get(properties, idColumnKey) ELSE Str(Chars_unknown)
        ELSE Undefined]

extractMonopilesFromGeoJson(geojson, idColumnKey) ==
  LET points == SelectSeq(geojson.features, LAMBDA f : f.geometry.type = "Point")
  IN IF ~HasFeatures(geojson)
          \/ \E i \in DOMAIN points : Len(Position(points[i].geometry)) < 2
     THEN [throws |-> TRUE, result |-> <<>>]
     ELSE [throws |-> FALSE,
           result |-> [i \in DOMAIN points |-> ExtractedMonopile(points[i], idColumnKey)]]

(***************************************************************************)
(* pages/Index.tsx: the row merge of both identifier-column handlers.      *)
(***************************************************************************)
\* mutant: the search keeps the last hit instead of stopping at the first
FindMatch_last(monopiles, row, columnKey) ==
  LET hits == {j \in DOMAIN monopiles : Get(monopiles[j], columnKey) = Get(row, columnKey)}
  IN IF hits = {} THEN 0 ELSE CHOOSE j \in hits : \A h \in hits : j >= h

\* monopiles.find(m => m[columnKey] === row[columnKey])
FindMatch(monopiles, row, columnKey) ==
  LET hits == {j \in DOMAIN monopiles : Get(monopiles[j], columnKey) = Get(row, columnKey)}
  IN IF hits = {} THEN 0 ELSE CHOOSE j \in hits : \A h \in hits : j <= h

\* mutant: lat: match?.lat, lng: match?.lng on every row, matched or not
updatedRows_always(rows, monopiles, columnKey) ==
  [i \in DOMAIN rows |->
     LET match == FindMatch(monopiles, rows[i], columnKey)
     IN [rows[i] EXCEPT
           !["lat"] = IF match # 0 THEN monopiles[match]["lat"] ELSE Undefined,
           !["lng"] = IF match # 0 THEN monopiles[match]["lng"] ELSE Undefined]]

updatedRows(rows, monopiles, columnKey) ==
  [i \in DOMAIN rows |->
     LET match == FindMatch(monopiles, rows[i], columnKey)
     IN IF match # 0
        THEN [rows[i] EXCEPT !["lat"] = monopiles[match]["lat"],
                             !["lng"] = monopiles[match]["lng"]]
        ELSE rows[i]]

(***************************************************************************)
(* Input catalogues.                                                       *)
(***************************************************************************)
A1 == Str(<<"A", "1">>)
A2 == Str(<<"A", "2">>)
Foo == Str(<<"F", "o", "o">>)
Bar == Str(<<"B", "a", "r">>)

Row(id, name, lat, lng) ==
  [k \in Keys |-> IF k = "id" THEN id ELSE IF k = "name" THEN name
                  ELSE IF k = "lat" THEN lat ELSE IF k = "lng" THEN lng
                  ELSE Undefined]

Props(key, v) == [k \in Keys |-> IF k = key THEN v ELSE Undefined]

DefaultGeoJsonStyle == [color |-> "#3b82f6", width |-> 2, opacity |-> 80]
GeoJsonStyles == {DefaultGeoJsonStyle, [color |-> "#ff0000", width |-> 3, opacity |-> 50]}

DefaultMonopileStyle ==
  [color |-> "#f97316", size |-> 6, borderColor |-> "#ffffff", borderWidth |-> 1]
MonopileStyles ==
  {DefaultMonopileStyle,
   [color |-> "#00ff00", size |-> 8, borderColor |-> "#000000", borderWidth |-> 2]}

\* two catalogue entries and one id outside the catalogue
StyleIds == {"osm-carto", "osm-topo", "satellite"}

CameraPositions == {[center |-> <<10, 10>>, zoom |-> 5]}

IdPool == {A1, A2}

RECURSIVE SeqsUpTo(_, _)
SeqsUpTo(S, k) ==
  IF k = 0 THEN {<<>>}
  ELSE LET shorter == SeqsUpTo(S, k - 1)
       IN shorter \cup {Append(q, x) : q \in shorter, x \in S}

IdLists == SeqsUpTo(IdPool, MaxIds)

OverlayCatalogue ==
  { FeatureCollection(<<>>),
    FeatureCollection(<<Feature(PointGeometry(<<49, 523>>), Props("id", A1))>>),
    FeatureCollection(
      <<Feature(PolygonGeometry(<< <<<<0, 0>>, <<20, 0>>, <<20, 30>>, <<0, 0>>>> >>),
                Props("id", A2)),
        Feature(PointGeometry(<<50, 530>>), Props("id", A2))>>) }

MonopileCatalogue ==
  { <<Row(A1, Foo, Num(523), Num(49))>>,
    <<Row(A1, Foo, Num(523), Num(49)), Row(A2, Bar, Undefined, Undefined)>>,
    <<Row(A1, Foo, Num(523), Num(49)), Row(A2, Bar, Num(530), Num(50))>> }

TableFiles ==
  { [name |-> "piles.csv", ext |-> "csv", parses |-> TRUE,
     rows |-> <<Row(A1, Foo, Undefined, Undefined), Row(A2, Bar, Undefined, Undefined)>>],
    [name |-> "placed.xlsx", ext |-> "xlsx", parses |-> TRUE,
     rows |-> <<Row(A1, Foo, Num(523), Num(49))>>],
    [name |-> "notes.txt", ext |-> "txt", parses |-> TRUE, rows |-> <<>>] }

\* a workbook XLSX.read cannot read
CorruptTableFiles ==
  { [name |-> "corrupt.xlsx", ext |-> "xlsx", parses |-> FALSE, rows |-> <<>>] }

GeoJsonFiles ==
  { [name |-> "site.geojson", ext |-> "geojson", parses |-> TRUE,
     doc |-> FeatureCollection(
               <<Feature(PointGeometry(<<49, 523>>), Props("id", A1)),
                 Feature(PolygonGeometry(<< <<<<0, 0>>, <<20, 0>>, <<20, 30>>, <<0, 0>>>> >>),
                         Props("id", A2))>>)],
    [name |-> "broken.geojson", ext |-> "geojson", parses |-> FALSE, doc |-> NoGeoJson],
    [name |-> "site.json", ext |-> "json", parses |-> TRUE,
     doc |-> FeatureCollection(<<>>)] }

\* valid JSON that is not a FeatureCollection
MalformedGeoJsonFiles ==
  { [name |-> "feature.geojson", ext |-> "geojson", parses |-> TRUE,
     doc |-> FeaturelessDocument] }

Queries == {<<>>, <<"f", "o", "o">>, <<"a">>}

\* the catalogue entries the style selector is exercised with
SelectableStyleIds == {"osm-carto", "osm-topo"}

ClickPositions == {[lat |-> Num(530), lng |-> Num(50)]}

\* what the last step did: the operation, its key argument, its id-list argument
Op(name, key, ids) == [name |-> name, key |-> key, ids |-> ids]

\* the props and state the Map component renders with
MapProps(gd, td, gic, fids, smid, sms, gs, ms) ==
  [geoJsonData |-> gd, monopiles |-> td.rows, tableIdColumn |-> td.idColumnKey,
   geoJsonIdColumn |-> gic, filteredIds |-> fids, hasGeoJson |-> gd # NoGeoJson,
   selectedMonopileId |-> smid, selectedMapStyle |-> sms, geoJsonStyle |-> gs,
   monopileStyle |-> ms]

CurrentProps ==
  MapProps(geoJsonData, tableData, geoJsonIdColumn, filteredIds, selectedMonopileId,
           selectedMapStyle, geoJsonStyle, monopileStyle)

(***************************************************************************)
(* components/Map.tsx: the effects, in declaration order.  m is map.current*)
(* and p the props and state of the render the effect belongs to.          *)
(***************************************************************************)
R(m, log) == [map |-> m, log |-> log]

InitializeMapDeps == {"hasGeoJson", "onMapClick", "selectedMonopileId"}

\* the dependency arrays of the add-GeoJSON and add-monopiles effects
AddGeoJsonDeps == {"geoJsonData", "geoJsonStyle"}
AddMonopilesDeps == {"monopiles", "tableIdColumn", "monopileStyle"}

\* Each effect below takes r, the widget and the log so far in this commit,
\* and runs only if one of its dependencies is in changed.

\* the cleanup removes the old widget, the effect creates a new one
InitializeMapEffect(r, changed) ==
  IF changed \cap InitializeMapDeps = {} THEN r ELSE R(createMap, r.log)

MapStyleEffect(r, p, changed) ==
  IF "selectedMapStyle" \notin changed \/ ~r.map.loaded THEN r
  ELSE R(setMapStyle(r.map, p.selectedMapStyle), r.log)

\* the result of addGeoJsonLayer, with the toast that follows it
Displayed(r, log) ==
  R(r.map, log \cup r.log \cup {"toast.success: GeoJSON data displayed on map"})

\* geoJsonData.features.length (line 152) is outside the try
AddGeoJsonEffect(r, p, changed) ==
  IF changed \cap AddGeoJsonDeps = {} \/ ~r.map.loaded \/ p.geoJsonData = NoGeoJson THEN r
  ELSE IF ~HasFeatures(p.geoJsonData)
    THEN R(r.map, r.log \cup {"uncaught: TypeError: geoJsonData.features is undefined"})
  ELSE Displayed(addGeoJsonLayer(r.map, p.geoJsonData, p.geoJsonStyle), r.log)

\* a variant that does not ask the widget whether it is loaded
AddMonopilesEffect_unguarded(r, p, changed) ==
  IF \/ changed \cap AddMonopilesDeps = {}
     \/ p.tableIdColumn = NoKey
     \/ Len(p.monopiles) = 0
  THEN r
  ELSE IF \E i \in DOMAIN p.monopiles : HasCoordinates(p.monopiles[i])
    THEN R(addMonopiles(r.map, p.monopiles, p.tableIdColumn, p.monopileStyle), r.log)
  ELSE r

AddMonopilesEffect(r, p, changed) ==
  IF \/ changed \cap AddMonopilesDeps = {}
     \/ ~r.map.loaded
     \/ p.tableIdColumn = NoKey
     \/ Len(p.monopiles) = 0
  THEN r
  ELSE IF \E i \in DOMAIN p.monopiles : HasCoordinates(p.monopiles[i])
    THEN R(addMonopiles(r.map, p.monopiles, p.tableIdColumn, p.monopileStyle), r.log)
  ELSE r

FilterGeoJsonEffect(r, p, changed) ==
  IF \/ changed \cap {"filteredIds", "geoJsonIdColumn", "geoJsonData"} = {}
     \/ ~r.map.loaded
     \/ p.geoJsonData = NoGeoJson
     \/ p.geoJsonIdColumn = NoKey
     \/ Len(p.filteredIds) = 0
  THEN r
  ELSE R(filterGeoJsonByProperty(r.map, p.geoJsonIdColumn, p.filteredIds), r.log)

FilterMonopilesEffect(r, p, changed) ==
  IF \/ changed \cap {"filteredIds", "tableIdColumn"} = {}
     \/ ~r.map.loaded
     \/ p.tableIdColumn = NoKey
     \/ Len(p.filteredIds) = 0
  THEN r
  ELSE R(filterMonopilesByIds(r.map, p.filteredIds, p.tableIdColumn), r.log)

UpdateGeoJsonStyleEffect(r, p, changed) ==
  IF \/ changed \cap {"geoJsonStyle", "geoJsonData"} = {}
     \/ ~r.map.loaded
     \/ p.geoJsonData = NoGeoJson
  THEN r
  ELSE R(updateGeoJsonStyle(r.map, p.geoJsonStyle), r.log)

UpdateMonopileStyleEffect(r, p, changed) ==
  IF \/ changed \cap {"monopileStyle", "monopiles"} = {}
     \/ ~r.map.loaded
     \/ Len(p.monopiles) = 0
  THEN r
  ELSE R(updateMonopileStyle(r.map, p.monopileStyle), r.log)

\* One commit of the Map component: every effect with a changed dependency
\* runs, in declaration order.  The callbacks of a widget created in this
\* commit capture p; those of an older widget keep c.
RunEffects(m, c, p, changed) ==
  [effects |->
     UpdateMonopileStyleEffect(
       UpdateGeoJsonStyleEffect(
         FilterMonopilesEffect(
           FilterGeoJsonEffect(
             AddMonopilesEffect(
               AddGeoJsonEffect(
                 MapStyleEffect(
                   InitializeMapEffect(R(m, {}), changed),
                   p, changed),
                 p, changed),
               p, changed),
             p, changed),
           p, changed),
         p, changed),
       p, changed),
   closure |-> IF changed \cap InitializeMapDeps = {} THEN c ELSE p]

\* the 'load' callback, with the values c it captured when the widget was created
LoadGeoJson(m, c) ==
  IF c.geoJsonData # NoGeoJson
  THEN addGeoJsonLayer(m, c.geoJsonData, c.geoJsonStyle) ELSE R(m, {})

LoadMonopiles(r, c) ==
  IF /\ Len(c.monopiles) > 0
     /\ c.tableIdColumn # NoKey
     /\ \E i \in DOMAIN c.monopiles : HasCoordinates(c.monopiles[i])
  THEN R(addMonopiles(r.map, c.monopiles, c.tableIdColumn, c.monopileStyle), r.log)
  ELSE r

Loaded(r) ==
  R([r.map EXCEPT !.loaded = TRUE], r.log \cup {"toast.success: Map loaded successfully"})

LoadHandler(m, c) ==
  Loaded(LoadMonopiles(LoadGeoJson(setMapStyle(m, c.selectedMapStyle), c), c))

(***************************************************************************)
(* pages/Index.tsx                                                         *)
(***************************************************************************)
\* the search effect: the ids handed to setFilteredIds
SearchEffect(rows, idColumnKey, query) ==
  IF idColumnKey = NoKey \/ query = <<>> THEN <<>>
  ELSE LET filtered == filterMonopiles(rows, query, idColumnKey)
       IN [i \in DOMAIN filtered |-> Get(filtered[i], idColumnKey)]

ChangedProps(old, new) == {k \in DOMAIN new : old[k] # new[k]}

\* the widget, the captured values and the log after the effects r of a commit
Commit(r, log) ==
  /\ map' = r.effects.map
  /\ closure' = r.closure
  /\ console' = log \cup r.effects.log

\* A handler of Index has set the state to (sq, td, gd, gc, gic, smid): Index
\* renders again, handleMapClick is a new function, the search effect sets
\* filteredIds (a further render), and the effects of Map run.
\* u is the list of handleTableFileUpload calls after the step.
Rendered(op, sq, td, gd, gc, gic, smid, log, u) ==
  /\ searchQuery' = sq
  /\ tableData' = td
  /\ geoJsonData' = gd
  /\ geoJsonColumns' = gc
  /\ geoJsonIdColumn' = gic
  /\ selectedMonopileId' = smid
  /\ filteredIds' = SearchEffect(td.rows, td.idColumnKey, sq)
  /\ Commit(RunEffects(map, closure,
                       MapProps(gd, td, gic, SearchEffect(td.rows, td.idColumnKey, sq), smid,
                                selectedMapStyle, geoJsonStyle, monopileStyle),
                       {"onMapClick"}
                         \cup ChangedProps(CurrentProps,
                                MapProps(gd, td, gic,
                                         SearchEffect(td.rows, td.idColumnKey, sq), smid,
                                         selectedMapStyle, geoJsonStyle, monopileStyle))),
            log)
  /\ lastOp' = op
  /\ tableUploads' = u
  /\ UNCHANGED <<mapStateVars, tableVars>>

IndexRender(op, sq, td, gd, gc, gic, smid, log) ==
  Rendered(op, sq, td, gd, gc, gic, smid, log, tableUploads)

\* a handler that set no state, or set a state cell to the value it had
NotRendered(op, log, u) ==
  /\ lastOp' = op
  /\ console' = log
  /\ tableUploads' = u
  /\ UNCHANGED <<indexVars, mapStateVars, tableVars, map, closure>>

NoRender(op, log) == NotRendered(op, log, tableUploads)

\* FileUpload.onTableDrop: the extension check, then handleTableFileUpload is
\* called and suspends at `await parseFileData(file)`
OnTableDrop ==
  \E file \in TableFiles \cup CorruptTableFiles :
    /\ Len(tableUploads) < MaxUploads
    /\ IF file.ext \notin {"csv", "xlsx", "xls"}
       THEN NoRender(Op("onTableDrop", file.name, <<>>),
                     {"toast.error: Please upload a CSV or Excel file"})
       ELSE NotRendered(Op("onTableDrop", file.name, <<>>), {},
                        Append(tableUploads, [file |-> file, awaiting |-> TRUE]))

\* the parse of one of the suspended calls settles, in whatever order the
\* file reads finish, and the call resumes: setTableData or the catch
ResumeTableUpload ==
  \E i \in DOMAIN tableUploads :
    /\ tableUploads[i].awaiting
    /\ IF parseFileData(tableUploads[i].file).throws
       THEN NotRendered(Op("handleTableFileUpload", tableUploads[i].file.name, <<>>),
                        {"toast.error: Failed to parse the file. Please check the format."},
                        [tableUploads EXCEPT ![i].awaiting = FALSE])
       ELSE Rendered(Op("handleTableFileUpload", tableUploads[i].file.name, <<>>),
                     searchQuery, parseFileData(tableUploads[i].file).data, geoJsonData,
                     geoJsonColumns, geoJsonIdColumn, selectedMonopileId, {},
                     [tableUploads EXCEPT ![i].awaiting = FALSE])

\* Header: onSearchChange
SetSearchQuery ==
  \E q \in Queries :
    /\ q # searchQuery
    /\ IndexRender(Op("setSearchQuery", "", <<>>), q, tableData, geoJsonData,
                   geoJsonColumns, geoJsonIdColumn, selectedMonopileId, {})

\* FileUpload.onTableDrop and handleTableFileUpload
UploadTableFile(file) ==
  IF file.ext \notin {"csv", "xlsx", "xls"}
    THEN NoRender(Op("handleTableFileUpload", file.name, <<>>),
                  {"toast.error: Please upload a CSV or Excel file"})
  ELSE IF parseFileData(file).throws
    THEN NoRender(Op("handleTableFileUpload", file.name, <<>>),
                  {"toast.error: Failed to parse the file. Please check the format."})
  ELSE IndexRender(Op("handleTableFileUpload", file.name, <<>>), searchQuery,
                   parseFileData(file).data, geoJsonData, geoJsonColumns, geoJsonIdColumn,
                   selectedMonopileId, {})

HandleTableFileUpload == \E file \in TableFiles : UploadTableFile(file)

\* the same drop with a workbook that cannot be read
DropCorruptTableFile == \E file \in CorruptTableFiles : UploadTableFile(file)

\* FileUpload.onGeoJsonDrop and handleGeoJsonFileUpload
\* setGeoJsonData(data) precedes extractGeoJsonIdColumns(data), which throws
\* when data has no `features`
UploadGeoJsonFile(file) ==
  IF file.ext # "geojson"
    THEN NoRender(Op("handleGeoJsonFileUpload", file.name, <<>>),
                  {"toast.error: Please upload a GeoJSON file"})
  ELSE IF ~file.parses
    THEN NoRender(Op("handleGeoJsonFileUpload", file.name, <<>>),
           {"toast.error: Failed to parse the GeoJSON file. Please check the format."})
  ELSE IF ~HasFeatures(file.doc)
    THEN IndexRender(Op("handleGeoJsonFileUpload", file.name, <<>>), searchQuery, tableData,
                     file.doc, geoJsonColumns, geoJsonIdColumn, selectedMonopileId,
           {"toast.error: Failed to parse the GeoJSON file. Please check the format."})
  ELSE IndexRender(Op("handleGeoJsonFileUpload", file.name, <<>>), searchQuery, tableData,
                   file.doc, extractGeoJsonIdColumns(file.doc), geoJsonIdColumn,
                   selectedMonopileId, {"toast.success: GeoJSON file loaded successfully"})

HandleGeoJsonFileUpload == \E file \in GeoJsonFiles : UploadGeoJsonFile(file)

\* the same drop with valid JSON that is not a FeatureCollection
DropMalformedGeoJsonFile == \E file \in MalformedGeoJsonFiles : UploadGeoJsonFile(file)

\* what extractMonopilesFromGeoJson throws, which neither handler catches
Uncaught(geojson) ==
  IF HasFeatures(geojson) THEN "uncaught: Invalid point coordinates in GeoJSON"
  ELSE "uncaught: TypeError: geojson.features is undefined"

\* a variant that records the column and leaves the linking to the other dialog
HandleIdColumnSelect_unlinked ==
  \E columnKey \in Range(tableData.columns) :
    IndexRender(Op("handleIdColumnSelect", columnKey, <<>>), searchQuery,
                [tableData EXCEPT !.idColumnKey = columnKey],
                geoJsonData, geoJsonColumns, geoJsonIdColumn, selectedMonopileId,
                {"toast.success: Table file uploaded successfully"})

\* the table identifier dialog confirms one of the table's columns; the
\* toast of handleConfirmTableFile follows the handler unless it threw
HandleIdColumnSelect ==
  \E columnKey \in Range(tableData.columns) :
    LET td1 == [tableData EXCEPT !.idColumnKey = columnKey]
        link == geoJsonData # NoGeoJson /\ geoJsonIdColumn = columnKey
        x == extractMonopilesFromGeoJson(geoJsonData, columnKey)
        td2 == IF link /\ ~x.throws
               THEN [td1 EXCEPT !.rows = updatedRows(td1.rows, x.result, columnKey)]
               ELSE td1
    IN IndexRender(Op("handleIdColumnSelect", columnKey, <<>>), searchQuery, td2,
                   geoJsonData, geoJsonColumns, geoJsonIdColumn, selectedMonopileId,
                   IF link /\ x.throws
                   THEN {Uncaught(geoJsonData)}
                   ELSE {"toast.success: Table file uploaded successfully"})

\* the GeoJSON identifier dialog confirms None or one of the offered properties
HandleGeoJsonIdColumnSelect ==
  \E columnKey \in {NoKey} \cup Range(geoJsonColumns) :
    LET link == /\ columnKey # NoKey
                /\ tableData.idColumnKey = columnKey
                /\ Len(tableData.rows) > 0
        x == extractMonopilesFromGeoJson(geoJsonData, columnKey)
        td == IF link /\ ~x.throws
              THEN [tableData EXCEPT !.rows = updatedRows(tableData.rows, x.result, columnKey)]
              ELSE tableData
        op == Op("handleGeoJsonIdColumnSelect", columnKey, <<>>)
    IN IF columnKey = geoJsonIdColumn /\ ~(link /\ ~x.throws)
       THEN NoRender(op, IF link THEN {Uncaught(geoJsonData)}
                         ELSE {"toast.success: GeoJSON ID column selected"})
       ELSE IndexRender(op, searchQuery, td, geoJsonData, geoJsonColumns, columnKey,
                        selectedMonopileId,
                        IF link /\ x.throws
                        THEN {Uncaught(geoJsonData)}
                        ELSE {"toast.success: GeoJSON ID column selected"})

\* DataTable.tsx: the rows the table shows
displayData(data, idColumnKey, ids, query) ==
  IF query # <<>> /\ Len(ids) > 0 /\ idColumnKey # NoKey
  THEN SelectSeq(data, LAMBDA row : \E i \in DOMAIN ids : ids[i] = Get(row, idColumnKey))
  ELSE data

\* DataTable.handleRowClick and handleMonopileSelect
HandleRowClick ==
  \E row \in Range(displayData(tableData.rows, tableData.idColumnKey, filteredIds,
                               searchQuery)) :
    LET id == Get(row, tableData.idColumnKey)
        op == Op("handleRowClick", "", <<id>>)
    IN IF tableData.idColumnKey = NoKey \/ geoJsonData # NoGeoJson
         THEN NoRender(op, {})
       ELSE IF id = selectedMonopileId
         THEN NoRender(op, {"toast.info: Selected monopile"})
       ELSE IndexRender(op, searchQuery, tableData, geoJsonData, geoJsonColumns,
                        geoJsonIdColumn, id, {"toast.info: Selected monopile"})

\* a variant whose click callback does not look at hasGeoJson
MapClick_anyMode ==
  \E pos \in ClickPositions :
    LET op == Op("mapClick", "", <<>>) IN
    IF ~Truthy(closure.selectedMonopileId) \/ closure.tableIdColumn = NoKey
      THEN NoRender(op, {})
    ELSE IndexRender(op, searchQuery,
                     [tableData EXCEPT !.rows =
                        updateMonopileCoordinates(closure.monopiles, closure.tableIdColumn,
                                                  closure.selectedMonopileId,
                                                  pos.lat, pos.lng)],
                     geoJsonData, geoJsonColumns, geoJsonIdColumn, selectedMonopileId,
                     {"toast.success: Updated coordinates for monopile"})

\* the widget's click callback and handleMapClick, both as captured in closure
MapClick ==
  \E pos \in ClickPositions :
    LET op == Op("mapClick", "", <<>>) IN
    IF closure.hasGeoJson \/ ~Truthy(closure.selectedMonopileId)
      THEN NoRender(op, {})
    ELSE IF closure.tableIdColumn = NoKey
      THEN NoRender(op, {})
    ELSE IndexRender(op, searchQuery,
                     [tableData EXCEPT !.rows =
                        updateMonopileCoordinates(closure.monopiles, closure.tableIdColumn,
                                                  closure.selectedMonopileId,
                                                  pos.lat, pos.lng)],
                     geoJsonData, geoJsonColumns, geoJsonIdColumn, selectedMonopileId,
                     {"toast.success: Updated coordinates for monopile"})

(***************************************************************************)
(* components/Map.tsx: the widget's events and the style controls.         *)
(***************************************************************************)
AfterLoad(r) ==
  /\ map' = r.map
  /\ console' = r.log

MapLoad ==
  /\ ~map.loaded
  /\ AfterLoad(LoadHandler(map, closure))
  /\ lastOp' = Op("load", "", <<>>)
  /\ UNCHANGED <<indexVars, mapStateVars, tableVars, tableUploads, closure>>

\* a state change of Map alone: Index does not render, the props are the same
MapRender(op, sms, gs, ms, changed) ==
  /\ selectedMapStyle' = sms
  /\ geoJsonStyle' = gs
  /\ monopileStyle' = ms
  /\ Commit(RunEffects(map, closure,
                       MapProps(geoJsonData, tableData, geoJsonIdColumn, filteredIds,
                                selectedMonopileId, sms, gs, ms),
                       changed),
            {})
  /\ lastOp' = op
  /\ UNCHANGED <<indexVars, tableVars, tableUploads>>

HandleMapStyleChange ==
  \E styleId \in SelectableStyleIds :
    /\ styleId # selectedMapStyle
    /\ MapRender(Op("handleMapStyleChange", styleId, <<>>), styleId, geoJsonStyle,
                 monopileStyle, {"selectedMapStyle"})

\* StyleControls shows the GeoJSON controls only when a GeoJSON is loaded
HandleGeoJsonStyleChange ==
  \E style \in GeoJsonStyles :
    /\ geoJsonData # NoGeoJson
    /\ style # geoJsonStyle
    /\ MapRender(Op("handleGeoJsonStyleChange", "", <<>>), selectedMapStyle, style,
                 monopileStyle, {"geoJsonStyle"})

HandleMonopileStyleChange ==
  \E style \in MonopileStyles :
    /\ style # monopileStyle
    /\ MapRender(Op("handleMonopileStyleChange", "", <<>>), selectedMapStyle, geoJsonStyle,
                 style, {"monopileStyle"})

(***************************************************************************)
(* components/DataTable.tsx: sorting; Index.tsx and dataUtils.ts: export.  *)
(***************************************************************************)
\* the order localeCompare gives the characters of the catalogue texts
Collation == <<"0", "1", "2", "3", "4", "5", "6", "7", "8", "9">> \o LowerCase

CharRank(c) ==
  IF \E j \in DOMAIN Collation : Collation[j] = c
  THEN CHOOSE j \in DOMAIN Collation : Collation[j] = c
  ELSE 0

RECURSIVE localeCompare(_, _)
localeCompare(a, b) ==
  IF a = <<>> THEN (IF b = <<>> THEN 0 ELSE 0 - 1)
  ELSE IF b = <<>> THEN 1
  ELSE IF CharRank(Head(a)) < CharRank(Head(b)) THEN 0 - 1
  ELSE IF CharRank(Head(a)) > CharRank(Head(b)) THEN 1
  ELSE localeCompare(Tail(a), Tail(b))

\* String(value || '').toLowerCase()
SortText(v) == toLowerCase(String(IF Truthy(v) THEN v ELSE Str(<<>>)))

\* the comparator sortedData hands to Array.sort
CompareValues(aValue, bValue, direction) ==
  IF aValue = bValue THEN 0
  ELSE IF aValue.t = "number" /\ bValue.t = "number"
    THEN (IF direction = "asc" THEN aValue.n - bValue.n ELSE bValue.n - aValue.n)
  ELSE IF direction = "asc" THEN localeCompare(SortText(aValue), SortText(bValue))
  ELSE localeCompare(SortText(bValue), SortText(aValue))

CompareRows(a, b, column, direction) ==
  IF column = NoKey THEN 0
  ELSE CompareValues(Get(a, column), Get(b, column), direction)

\* Array.sort is stable: x goes behind every element that does not follow it
RECURSIVE InsertRow(_, _, _, _)
InsertRow(sorted, x, column, direction) ==
  IF sorted = <<>> THEN <<x>>
  ELSE IF CompareRows(sorted[Len(sorted)], x, column, direction) <= 0
    THEN Append(sorted, x)
  ELSE Append(InsertRow(SubSeq(sorted, 1, Len(sorted) - 1), x, column, direction),
              sorted[Len(sorted)])

RECURSIVE sortedData(_, _, _)
sortedData(data, column, direction) ==
  IF data = <<>> THEN <<>>
  ELSE InsertRow(sortedData(SubSeq(data, 1, Len(data) - 1), column, direction),
                 data[Len(data)], column, direction)

\* a step of DataTable or of the export: Index does not render
TableStep(op, column, direction, file, log) ==
  /\ sortColumn' = column
  /\ sortDirection' = direction
  /\ download' = file
  /\ lastOp' = op
  /\ console' = log
  /\ UNCHANGED <<indexVars, mapStateVars, map, closure, tableUploads>>

HandleHeaderClick ==
  \E columnKey \in Range(tableData.columns) :
    IF sortColumn = columnKey
    THEN TableStep(Op("handleHeaderClick", columnKey, <<>>), sortColumn,
                   IF sortDirection = "asc" THEN "desc" ELSE "asc", download, {})
    ELSE TableStep(Op("handleHeaderClick", columnKey, <<>>), columnKey, "asc", download, {})

\* the text Papa.unparse gives one value; the catalogue texts need no quoting
Cell(v) == IF v = Undefined \/ v = Null THEN <<>> ELSE String(v)

\* Papa.unparse of an array of objects: the fields are the keys of the first
exportToCSV(monopiles) ==
  [fields |-> ObjectKeys(monopiles[1]),
   lines |-> [i \in DOMAIN monopiles |->
                [j \in DOMAIN ObjectKeys(monopiles[1]) |->
                   Cell(monopiles[i][ObjectKeys(monopiles[1])[j]])]]]

NoDownload == [name |-> "", fields |-> <<>>, lines |-> <<>>]

Download(name, csv) == [name |-> name, fields |-> csv.fields, lines |-> csv.lines]

\* a variant that exports the rows as the table shows them
HandleDownload_displayed ==
  IF Len(tableData.rows) = 0
  THEN TableStep(Op("handleDownload", "", <<>>), sortColumn, sortDirection, download,
                 {"toast.error: No data to export"})
  ELSE TableStep(Op("handleDownload", "", <<>>), sortColumn, sortDirection,
                 Download("monopile_data.csv",
                          exportToCSV(displayData(sortedData(tableData.rows, sortColumn,
                                                             sortDirection),
                                                  tableData.idColumnKey, filteredIds,
                                                  searchQuery))),
                 {"toast.success: Data exported successfully"})

HandleDownload ==
  IF Len(tableData.rows) = 0
  THEN TableStep(Op("handleDownload", "", <<>>), sortColumn, sortDirection, download,
                 {"toast.error: No data to export"})
  ELSE TableStep(Op("handleDownload", "", <<>>), sortColumn, sortDirection,
                 Download("monopile_data.csv", exportToCSV(tableData.rows)),
                 {"toast.success: Data exported successfully"})

InitTable ==
  /\ sortColumn = NoKey
  /\ sortDirection = "asc"
  /\ download = NoDownload
  /\ tableUploads = <<>>

(***************************************************************************)
(* Initial state: Index and Map have mounted, the initialize-map effect    *)
(* has created the widget, which has not reported `load` yet.              *)
(***************************************************************************)
InitApp ==
  /\ InitTable
  /\ searchQuery = <<>>
  /\ tableData = [columns |-> <<>>, rows |-> <<>>, idColumnKey |-> NoKey]
  /\ geoJsonData = NoGeoJson
  /\ geoJsonColumns = <<>>
  /\ geoJsonIdColumn = NoKey
  /\ selectedMonopileId = Null
  /\ filteredIds = <<>>
  /\ selectedMapStyle = "osm-carto"
  /\ geoJsonStyle = DefaultGeoJsonStyle
  /\ monopileStyle = DefaultMonopileStyle

Init ==
  /\ InitApp
  /\ map = createMap
  /\ closure = CurrentProps
  /\ lastOp = Op("mount", "", <<>>)
  /\ console = {}

(***************************************************************************)
(* Specification SpecMap: the functions of mapUtils.ts called directly on  *)
(* a loaded widget, in any order and with any catalogue arguments.         *)
(***************************************************************************)
InitMap ==
  /\ InitApp
  /\ map = [setMapStyle(createMap, "osm-carto") EXCEPT !.loaded = TRUE]
  /\ closure = CurrentProps
  /\ lastOp = Op("load", "", <<>>)
  /\ console = {}

MapCall(name, key, ids, m, log) ==
  /\ map' = m
  /\ lastOp' = Op(name, key, ids)
  /\ console' = log
  /\ UNCHANGED <<indexVars, mapStateVars, tableVars, tableUploads, closure>>

CallSetMapStyle ==
  \E styleId \in StyleIds : MapCall("setMapStyle", styleId, <<>>, setMapStyle(map, styleId), {})

CallAddGeoJsonLayer ==
  \E geojson \in OverlayCatalogue, style \in GeoJsonStyles :
    LET r == addGeoJsonLayer(map, geojson, style)
    IN MapCall("addGeoJsonLayer", "", <<>>, r.map, r.log)

CallFilterGeoJsonByProperty ==
  \E values \in IdLists :
    MapCall("filterGeoJsonByProperty", "id", values,
            filterGeoJsonByProperty(map, "id", values), {})

CallUpdateGeoJsonStyle ==
  \E style \in GeoJsonStyles :
    MapCall("updateGeoJsonStyle", "", <<>>, updateGeoJsonStyle(map, style), {})

CallAddMonopiles ==
  \E monopiles \in MonopileCatalogue, style \in MonopileStyles :
    MapCall("addMonopiles", "id", <<>>, addMonopiles(map, monopiles, "id", style), {})

CallUpdateMonopileStyle ==
  \E style \in MonopileStyles :
    MapCall("updateMonopileStyle", "", <<>>, updateMonopileStyle(map, style), {})

CallFilterMonopilesByIds ==
  \E ids \in IdLists :
    MapCall("filterMonopilesByIds", "id", ids, filterMonopilesByIds(map, ids, "id"), {})

\* the user drags or zooms the map
MoveCamera ==
  /\ map.loaded
  /\ \E c \in CameraPositions : map' = [map EXCEPT !.camera = c]
  /\ lastOp' = Op("moveCamera", "", <<>>)
  /\ console' = {}
  /\ UNCHANGED <<indexVars, mapStateVars, tableVars, tableUploads, closure>>

NextMap ==
  \/ CallSetMapStyle
  \/ CallAddGeoJsonLayer
  \/ CallFilterGeoJsonByProperty
  \/ CallUpdateGeoJsonStyle
  \/ CallAddMonopiles
  \/ CallUpdateMonopileStyle
  \/ CallFilterMonopilesByIds
  \/ MoveCamera

SpecMap == InitMap /\ [][NextMap]_vars

(***************************************************************************)
(* Specification Spec: the dashboard.                                      *)
(***************************************************************************)
Next ==
  \/ SetSearchQuery
  \/ HandleTableFileUpload
  \/ HandleGeoJsonFileUpload
  \/ HandleIdColumnSelect
  \/ HandleGeoJsonIdColumnSelect
  \/ HandleRowClick
  \/ MapClick
  \/ MapLoad
  \/ MoveCamera
  \/ HandleMapStyleChange
  \/ HandleGeoJsonStyleChange
  \/ HandleMonopileStyleChange

Spec == Init /\ [][Next]_vars

(***************************************************************************)
(* SpecData: the dashboard with the style controls left untouched.         *)
(* SpecStyle: the dashboard without search, row selection and placement.   *)
(***************************************************************************)
NextData ==
  \/ SetSearchQuery
  \/ HandleTableFileUpload
  \/ HandleGeoJsonFileUpload
  \/ HandleIdColumnSelect
  \/ HandleGeoJsonIdColumnSelect
  \/ HandleRowClick
  \/ MapClick
  \/ MapLoad
  \/ MoveCamera

SpecData == Init /\ [][NextData]_vars

NextStyle ==
  \/ HandleTableFileUpload
  \/ HandleGeoJsonFileUpload
  \/ HandleIdColumnSelect
  \/ HandleGeoJsonIdColumnSelect
  \/ MapLoad
  \/ MoveCamera
  \/ HandleMapStyleChange
  \/ HandleGeoJsonStyleChange
  \/ HandleMonopileStyleChange

SpecStyle == Init /\ [][NextStyle]_vars

(***************************************************************************)
(* Properties.                                                             *)
(***************************************************************************)
PaintOf(m) == [i \in DOMAIN m.layers |-> <<m.layers[i].id, m.layers[i].paint>>]
FilterOf(m) == [i \in DOMAIN m.layers |-> <<m.layers[i].id, m.layers[i].filter>>]
OverlayLayers(m) == SelectSeq(m.layers, LAMBDA l : l.id # "osm-layer")
HasIdFilter(m, layerId) ==
  getLayer(m, layerId) /\ layerOf(m, layerId).filter.op \in {"in", "all"}

\* C1: a call of filterGeoJsonByProperty or filterMonopilesByIds, with an empty
\* or a non-empty id list, leaves the camera (centre and zoom), every source
\* and every paint property as they were.
C1_FilterKeepsCamera ==
  [][lastOp'.name \in {"filterGeoJsonByProperty", "filterMonopilesByIds"}
       => /\ map'.camera = map.camera
          /\ map'.sources = map.sources
          /\ PaintOf(map') = PaintOf(map)]_vars

\* a non-empty id filter was just applied to overlay layers after the user moved the camera
C1_Witness ==
  /\ lastOp.name = "filterGeoJsonByProperty"
  /\ lastOp.ids # <<>>
  /\ HasIdFilter(map, "geojson-point-layer")
  /\ getSource(map, "monopile-data")
  /\ map.camera \in CameraPositions

\* C6: setMapStyle leaves the camera and all overlay and monopile sources and
\* layers (existence, relative order, filters, paint) unchanged; with a
\* style id outside MAP_STYLES it changes nothing.
C6_SetMapStyleFrame ==
  [][lastOp'.name = "setMapStyle"
       => /\ map'.camera = map.camera
          /\ \A s \in SourceNames \ {"osm-tiles"} : map'.sources[s] = map.sources[s]
          /\ OverlayLayers(map') = OverlayLayers(map)
          /\ (~(\E i \in DOMAIN MAP_STYLES : MAP_STYLES[i].id = lastOp'.key) => map' = map)]_vars

\* the base style was just swapped to another catalogue entry under a filtered overlay
C6_Witness ==
  /\ lastOp.name = "setMapStyle"
  /\ lastOp.key = "osm-topo"
  /\ map.sources["osm-tiles"].tiles = <<"https://", "a", ".tile.opentopomap.org/{z}/{x}/{y}.png">>
  /\ HasIdFilter(map, "geojson-point-layer")
  /\ getSource(map, "monopile-data")
  /\ map.camera \in CameraPositions

\* the layers of b are those of a, in the same order, and differ from them at
\* most in the paint of the layers named in ids
SameLayersExceptPaint(a, b, ids) ==
  /\ Len(b.layers) = Len(a.layers)
  /\ \A i \in DOMAIN a.layers :
       \/ b.layers[i] = a.layers[i]
       \/ /\ a.layers[i].id \in ids
          /\ b.layers[i] = [a.layers[i] EXCEPT !.paint = b.layers[i].paint]

\* C2: when only the search query changes, the reaction of Index and Map
\* leaves the camera (centre and zoom) as it was and the widget in place: it
\* is not re-created or reset, so it stays loaded with the sources it had.
C2_SearchKeepsWidget ==
  [][lastOp'.name = "setSearchQuery"
       => /\ map'.camera = map.camera
          /\ map'.loaded = map.loaded
          /\ map'.sources = map.sources]_vars

C4_PointRestyleOnlyPaint ==
  [][lastOp'.name = "handleMonopileStyleChange"
       => /\ map'.camera = map.camera
          /\ map'.sources = map.sources
          /\ SameLayersExceptPaint(map, map', {"monopile-layer"})]_vars

\* C5: when only the overlay style changes, the map update changes nothing
\* but paint properties of the overlay layers: the overlay source data, the
\* layers' filters and the camera stay as they were.
C5_OverlayRestyleOnlyPaint ==
  [][lastOp'.name = "handleGeoJsonStyleChange"
       => /\ map'.camera = map.camera
          /\ map'.sources = map.sources
          /\ FilterOf(map') = FilterOf(map)
          /\ SameLayersExceptPaint(map, map', Range(GeoJsonLayers))]_vars

(***************************************************************************)
(* Specification SpecOverlay: addGeoJsonLayer on a loaded widget with      *)
(* every collection of at most MaxFeatures features of OverlayFeatures.    *)
(***************************************************************************)
Ring == << <<0, 0>>, <<20, 0>>, <<20, 30>>, <<0, 0>> >>

OverlayFeatures ==
  { Feature(NullGeometry, Props("id", A1)),
    Feature([type |-> "GeometryCollection", coordinates |-> <<>>], Props("id", A1)),
    Feature(PointGeometry(<<49>>), Props("id", A1)),
    Feature(PointGeometry(<<49, 523>>), Props("id", A1)),
    Feature(LineStringGeometry(<< <<60, 400>>, <<80, 420>> >>), Props("id", A2)),
    Feature(MultiPointGeometry(<< <<70>>, <<70, 410>> >>), Props("id", A2)),
    Feature(PolygonGeometry(<<Ring>>), Props("id", A2)),
    Feature(MultiLineStringGeometry(<< << <<10, 10>> >>, << <<30, 50>> >> >>),
            Props("id", A2)),
    Feature(MultiPolygonGeometry(<< <<Ring>> >>), Props("id", A2)),
    Feature(MultiPolygonGeometry(<< <<>> >>), Props("id", A2)) }

Overlays == {FeatureCollection(fs) : fs \in SeqsUpTo(OverlayFeatures, MaxFeatures)}

LoadOverlay ==
  \E geojson \in Overlays :
    LET r == addGeoJsonLayer(map, geojson, geoJsonStyle)
    IN MapCall("addGeoJsonLayer", "", <<>>, r.map, r.log)

NextOverlay ==
  \/ LoadOverlay
  \/ MoveCamera

SpecOverlay == InitMap /\ [][NextOverlay]_vars

\* the coordinate tuples of at least two components in the geometries of the
\* types that carry coordinates, in feature order
CoordinatesFound(geojson) ==
  Flatten([i \in DOMAIN geojson.features |->
    LET g == geojson.features[i].geometry
    IN IF g.type \in {"Point", "LineString", "MultiPoint", "Polygon",
                      "MultiLineString", "MultiPolygon"}
       THEN SelectSeq(Flatten(Flatten(g.coordinates)), LAMBDA c : Len(c) >= 2)
       ELSE <<>>])

\* C7: loading an overlay without a valid coordinate leaves the camera as it
\* was and logs the warning; loading an overlay with at least one valid
\* coordinate fits the camera to the bounding box of the coordinates found.
C7_OverlayFit ==
  [][lastOp'.name = "addGeoJsonLayer"
       => LET found == CoordinatesFound(map'.sources["geojson-data"].data)
          IN IF found = <<>>
             THEN /\ map'.camera = map.camera
                  /\ console' = {"warn: No valid geometries found in GeoJSON"}
             ELSE map'.camera = fitBounds(map, extendAll(EmptyBounds, found)).camera]_vars

(***************************************************************************)
(* Specification SpecLink: the two identifier dialogs, in any order and    *)
(* any number of times, after a table of at most MaxRows rows of LinkRows  *)
(* and a GeoJSON of at most MaxFeatures features of LinkFeatures have been *)
(* uploaded.                                                               *)
(***************************************************************************)
LinkRows ==
  { Row(A1, Foo, Undefined, Undefined),
    Row(A2, Bar, Undefined, Undefined),
    Row(A2, Bar, Num(530), Num(50)) }

LinkFeatures ==
  { Feature(PointGeometry(<<49, 523>>), Props("id", A1)),
    Feature(PointGeometry(<<60, 400>>), Props("id", A1)),
    Feature(PointGeometry(<<49, 523>>), Props("pid", A1)),
    Feature(PointGeometry(<<49>>), Props("id", A2)),
    Feature(PolygonGeometry(<<Ring>>), Props("id", A2)) }

InitLink ==
  /\ InitTable
  /\ searchQuery = <<>>
  /\ \E rows \in SeqsUpTo(LinkRows, MaxRows) :
       tableData = parseFileData([ext |-> "csv", rows |-> rows]).data
  /\ \E fs \in SeqsUpTo(LinkFeatures, MaxFeatures) :
       geoJsonData = FeatureCollection(fs)
  /\ geoJsonColumns = extractGeoJsonIdColumns(geoJsonData)
  /\ geoJsonIdColumn = NoKey
  /\ selectedMonopileId = Null
  /\ filteredIds = <<>>
  /\ selectedMapStyle = "osm-carto"
  /\ geoJsonStyle = DefaultGeoJsonStyle
  /\ monopileStyle = DefaultMonopileStyle
  /\ map = createMap
  /\ closure = CurrentProps
  /\ lastOp = Op("handleGeoJsonFileUpload", "geojson", <<>>)
  /\ console = {"toast.success: GeoJSON file loaded successfully"}

NextLink ==
  \/ HandleIdColumnSelect
  \/ HandleGeoJsonIdColumnSelect

SpecLink == InitLink /\ [][NextLink]_vars

\* this step is an identifier dialog confirming key k
SelectStep(k) ==
  /\ lastOp'.name \in {"handleIdColumnSelect", "handleGeoJsonIdColumnSelect"}
  /\ lastOp'.key = k

\* this step is an identifier dialog confirming key k, and it merged the
\* coordinates of the GeoJSON points into the table
LinkStep(k) ==
  /\ \/ /\ lastOp'.name = "handleIdColumnSelect"
        /\ geoJsonData # NoGeoJson
        /\ geoJsonIdColumn = k
     \/ /\ lastOp'.name = "handleGeoJsonIdColumnSelect"
        /\ k # NoKey
        /\ tableData.idColumnKey = k
        /\ tableData.rows # <<>>
  /\ lastOp'.key = k
  /\ \A i \in DOMAIN geoJsonData.features :
       geoJsonData.features[i].geometry.type = "Point"
         => Len(Position(geoJsonData.features[i].geometry)) >= 2

\* the Point features whose value under key k, once extracted, is the row's
PointsMatching(row, k) ==
  {j \in DOMAIN geoJsonData.features :
     /\ geoJsonData.features[j].geometry.type = "Point"
     /\ Len(Position(geoJsonData.features[j].geometry)) >= 2
     /\ Get(ExtractedMonopile(geoJsonData.features[j], k), k) = Get(row, k)}

\* row has the latitude and longitude of the Point feature f
HasCoordinatesOf(row, f) ==
  /\ row["lat"] = Num(Position(f.geometry)[2])
  /\ row["lng"] = Num(Position(f.geometry)[1])

\* C8: an identifier dialog leaves the table with as many rows as before, in
\* the same order; a row whose identifier matches no linked point keeps all
\* its values, and any row keeps every value other than lat and lng.
C8_MergeOrderPreservingLocal ==
  [][\A k \in Keys \cup {NoKey} :
       SelectStep(k)
         => /\ Len(tableData'.rows) = Len(tableData.rows)
            /\ \A i \in DOMAIN tableData.rows :
                 /\ \A c \in Keys \ {"lat", "lng"} :
                      tableData'.rows[i][c] = tableData.rows[i][c]
                 /\ PointsMatching(tableData.rows[i], k) = {}
                      => tableData'.rows[i] = tableData.rows[i]]_vars

\* a link has given A1 coordinates, after the unmatched row A2 that keeps
\* the coordinates it came with
C8_Witness ==
  /\ lastOp.name = "handleGeoJsonIdColumnSelect"
  /\ lastOp.key = "id"
  /\ tableData.rows = <<Row(A2, Bar, Num(530), Num(50)), Row(A1, Foo, Num(523), Num(49))>>

PidDocument == FeatureCollection(<<Feature(PointGeometry(<<49, 523>>), Props("pid", A1))>>)
IdDocument == FeatureCollection(<<Feature(PointGeometry(<<49, 523>>), Props("id", A1))>>)

\* the table of the scenario: identifier column id, rows A1 and A2
ScenarioTable ==
  /\ tableData.idColumnKey = "id"
  /\ Len(tableData.rows) = 2
  /\ tableData.rows[1]["id"] = A1
  /\ tableData.rows[2]["id"] = A2

C10_LastMatchWins ==
  [][\A k \in Keys :
       LinkStep(k)
         => \A i \in DOMAIN tableData.rows :
              LET hits == PointsMatching(tableData.rows[i], k)
              IN hits # {}
                   => HasCoordinatesOf(tableData'.rows[i],
                        geoJsonData.features[CHOOSE j \in hits : \A h \in hits : j >= h])]_vars

\* C10 amended: after a link, a row whose identifier several Point features
\* carry has the lat and lng of the first of them in feature order.
C10_FirstMatchWins ==
  [][\A k \in Keys :
       LinkStep(k)
         => \A i \in DOMAIN tableData.rows :
              LET hits == PointsMatching(tableData.rows[i], k)
              IN hits # {}
                   => HasCoordinatesOf(tableData'.rows[i],
                        geoJsonData.features[CHOOSE j \in hits : \A h \in hits : j <= h])]_vars

\* two Point features carry A1 at different places and row A1 was linked to the first
C10_Witness ==
  /\ lastOp.name \in {"handleIdColumnSelect", "handleGeoJsonIdColumnSelect"}
  /\ lastOp.key = "id"
  /\ geoJsonData.features = <<Feature(PointGeometry(<<49, 523>>), Props("id", A1)),
                              Feature(PointGeometry(<<60, 400>>), Props("id", A1))>>
  /\ tableData.rows # <<>>
  /\ tableData.rows[1] = Row(A1, Foo, Num(523), Num(49))

(***************************************************************************)
(* SpecRecords: the record functions of dataUtils.ts and the search effect *)
(* of Index applied, in any order, to every table of at most MaxRows rows  *)
(* drawn from RecordPool, two of which carry the same identifier and one   *)
(* of which has an empty identifier cell.                                  *)
(***************************************************************************)
RecordPool ==
  { Row(A1, Foo, Undefined, Undefined),
    Row(A1, Bar, Undefined, Undefined),
    Row(A2, Bar, Undefined, Undefined),
    Row(Undefined, Bar, Undefined, Undefined) }

RecordQueries == Queries \cup {<<"F", "O", "O">>, <<"f", "i", "n">>, <<"5">>}

RecordKeys == {NoKey, "id", "name"}

InitRecords ==
  /\ \E rows \in SeqsUpTo(RecordPool, MaxRows), key \in RecordKeys :
       tableData = [columns |-> IF rows = <<>> THEN <<>> ELSE ObjectKeys(rows[1]),
                    rows |-> rows, idColumnKey |-> key]
  /\ searchQuery = <<>>
  /\ geoJsonData = NoGeoJson
  /\ geoJsonColumns = <<>>
  /\ geoJsonIdColumn = NoKey
  /\ selectedMonopileId = Null
  /\ filteredIds = <<>>
  /\ selectedMapStyle = "osm-carto"
  /\ geoJsonStyle = DefaultGeoJsonStyle
  /\ monopileStyle = DefaultMonopileStyle
  /\ map = createMap
  /\ closure = CurrentProps
  /\ lastOp = Op("mount", "", <<>>)
  /\ console = {}
  /\ InitTable

\* updateMonopileCoordinates(tableData.rows, idColumnKey, id, lat, lng)
CallUpdateMonopileCoordinates ==
  \E id \in IdPool \cup {Bar}, pos \in ClickPositions :
    /\ tableData' = [tableData EXCEPT !.rows =
                       updateMonopileCoordinates(tableData.rows, tableData.idColumnKey,
                                                 id, pos.lat, pos.lng)]
    /\ lastOp' = Op("updateMonopileCoordinates", tableData.idColumnKey,
                    <<id, pos.lat, pos.lng>>)
    /\ UNCHANGED <<searchQuery, geoJsonData, geoJsonColumns, geoJsonIdColumn,
                   selectedMonopileId, filteredIds, mapStateVars, tableVars, tableUploads,
                   map, closure, console>>

\* filterMonopiles(tableData.rows, q, key), the table keeping the result
CallFilterMonopiles ==
  \E q \in RecordQueries, key \in RecordKeys :
    /\ tableData' = [tableData EXCEPT !.rows = filterMonopiles(tableData.rows, q, key)]
    /\ lastOp' = Op("filterMonopiles", key, <<Str(q)>>)
    /\ UNCHANGED <<searchQuery, geoJsonData, geoJsonColumns, geoJsonIdColumn,
                   selectedMonopileId, filteredIds, mapStateVars, tableVars, tableUploads,
                   map, closure, console>>

\* the search box is typed into and the search effect of Index runs
CallSearchEffect ==
  \E q \in RecordQueries :
    /\ searchQuery' = q
    /\ filteredIds' = SearchEffect(tableData.rows, tableData.idColumnKey, q)
    /\ lastOp' = Op("searchEffect", tableData.idColumnKey, <<Str(q)>>)
    /\ UNCHANGED <<tableData, geoJsonData, geoJsonColumns, geoJsonIdColumn,
                   selectedMonopileId, mapStateVars, tableVars, tableUploads, map, closure,
                   console>>

NextRecords ==
  \/ CallUpdateMonopileCoordinates
  \/ CallFilterMonopiles
  \/ CallSearchEffect

SpecRecords == InitRecords /\ [][NextRecords]_vars

\* the rows of the table that carry identifier id under column key k
RowsWithId(rows, k, id) == {i \in DOMAIN rows : Get(rows[i], k) = id}

\* row b is row a with its coordinates replaced by (lat, lng)
Placed(a, b, lat, lng) == b = [a EXCEPT !["lat"] = lat, !["lng"] = lng]

\* C11 as stated: a placement sets lat/lng on the first row whose identifier
\* equals id and leaves every other row untouched, later rows with the same
\* identifier included.
C11_FirstRowOnly ==
  [][lastOp'.name = "updateMonopileCoordinates" =>
       LET hit == RowsWithId(tableData.rows, lastOp'.key, lastOp'.ids[1]) IN
       /\ DOMAIN tableData'.rows = DOMAIN tableData.rows
       /\ \A i \in DOMAIN tableData.rows :
            IF i \in hit /\ \A j \in hit : i <= j
            THEN Placed(tableData.rows[i], tableData'.rows[i],
                        lastOp'.ids[2], lastOp'.ids[3])
            ELSE tableData'.rows[i] = tableData.rows[i]]_vars

\* C11 amended: a placement sets lat/lng on every row whose identifier equals
\* id, keeping its other fields, and leaves every other row untouched; the
\* number and order of the rows are unchanged.
C11_EveryRowWithId ==
  [][lastOp'.name = "updateMonopileCoordinates" =>
       LET hit == RowsWithId(tableData.rows, lastOp'.key, lastOp'.ids[1]) IN
       /\ DOMAIN tableData'.rows = DOMAIN tableData.rows
       /\ \A i \in DOMAIN tableData.rows :
            IF i \in hit
            THEN Placed(tableData.rows[i], tableData'.rows[i],
                        lastOp'.ids[2], lastOp'.ids[3])
            ELSE tableData'.rows[i] = tableData.rows[i]]_vars

\* a placement on A1 has acted on a table with two A1 rows and both carry
\* the coordinates
C11_Witness ==
  /\ lastOp.name = "updateMonopileCoordinates"
  /\ lastOp.key = "id"
  /\ lastOp.ids[1] = A1
  /\ tableData.rows = <<Row(A1, Foo, Num(530), Num(50)), Row(A1, Bar, Num(530), Num(50))>>

(***************************************************************************)
(* Manual placement (SpecData).                                            *)
(***************************************************************************)
\* the dashboard is in manual-placement mode with a target selected
PlacementMode ==
  /\ geoJsonData = NoGeoJson
  /\ Truthy(selectedMonopileId)
  /\ tableData.idColumnKey # NoKey

\* C12: a map click changes the table only if no GeoJSON is loaded, a target
\* identifier is selected and the table identifier column is set, and then it
\* gives the clicked position to the rows carrying the selected identifier;
\* any other click is ignored and leaves the table as it was.
C12_ClickOnlyInPlacementMode ==
  [][lastOp'.name = "mapClick" =>
       IF PlacementMode
       THEN \E pos \in ClickPositions :
              tableData' = [tableData EXCEPT !.rows =
                              [i \in DOMAIN tableData.rows |->
                                 IF Get(tableData.rows[i], tableData.idColumnKey)
                                      = selectedMonopileId
                                 THEN [tableData.rows[i] EXCEPT !["lat"] = pos.lat,
                                                                !["lng"] = pos.lng]
                                 ELSE tableData.rows[i]]]
       ELSE tableData' = tableData]_vars

\* a click has placed the selected row A2, which had no coordinates
C12_Witness ==
  /\ lastOp.name = "mapClick"
  /\ selectedMonopileId = A2
  /\ geoJsonData = NoGeoJson
  /\ tableData.rows = <<Row(A1, Foo, Undefined, Undefined), Row(A2, Bar, Num(530), Num(50))>>

\* a click was ignored although a target is selected, a GeoJSON being loaded
C12_IgnoredWitness ==
  /\ lastOp.name = "mapClick"
  /\ Truthy(selectedMonopileId)
  /\ geoJsonData # NoGeoJson

(***************************************************************************)
(* Search (SpecRecords).                                                   *)
(***************************************************************************)
\* a is b with some elements left out, the others in their order
IsSubsequence(a, b) ==
  \E f \in [DOMAIN a -> DOMAIN b] :
    /\ \A i \in DOMAIN a : a[i] = b[f[i]]
    /\ \A i, j \in DOMAIN a : i < j => f[i] < f[j]

\* C13: filterMonopiles with an empty query returns all records unchanged and
\* in order; for every query its result is an order-preserving sub-sequence
\* of its input; and filtering the result again with the same query and
\* identifier column returns the result itself.
C13_FilterSubsequenceIdempotent ==
  [][lastOp'.name = "filterMonopiles" =>
       /\ lastOp'.ids[1].s = <<>> => tableData'.rows = tableData.rows
       /\ IsSubsequence(tableData'.rows, tableData.rows)
       /\ filterMonopiles(tableData'.rows, lastOp'.ids[1].s, lastOp'.key)
            = tableData'.rows]_vars

\* the query "a" has been applied and kept two rows, in their order
C13_Witness ==
  /\ lastOp.name = "filterMonopiles"
  /\ lastOp.ids[1].s = <<"a">>
  /\ tableData.rows = <<Row(A1, Foo, Undefined, Undefined), Row(A2, Bar, Undefined, Undefined)>>

\* the value of column k of the row is present and its text contains the
\* query, letter case ignored
ColumnContains(row, k, query) ==
  /\ Get(row, k) # Undefined
  /\ includes(toLowerCase(String(Get(row, k))), toLowerCase(query))

\* C14: for a non-empty query and an identifier column k, the filtered
\* identifier set is exactly the set of identifier values of the records in
\* which the identifier value or some other column value contains the query,
\* letter case ignored; for rows {id: "A1", name: "Foo"}, {id: "A2", name:
\* "Bar"} and the query "foo" it is {"A1"}.
C14_FilteredIdsExact ==
  [][(/\ lastOp'.name = "searchEffect"
      /\ searchQuery' # <<>>
      /\ tableData.idColumnKey # NoKey) =>
       /\ Range(filteredIds')
            = { Get(tableData.rows[i], tableData.idColumnKey) :
                  i \in { j \in DOMAIN tableData.rows :
                            \E k \in Keys :
                              ColumnContains(tableData.rows[j], k, searchQuery') } }
       /\ ( /\ tableData.rows = <<Row(A1, Foo, Undefined, Undefined),
                                  Row(A2, Bar, Undefined, Undefined)>>
            /\ tableData.idColumnKey = "id"
            /\ searchQuery' = <<"f", "o", "o">> )
          => Range(filteredIds') = {A1}]_vars

\* C15: the search filter is coordinate-independent: for every query, the
\* filtered identifier set of the table after a manual placement equals the
\* set before it, so assigned coordinates never make a record match.
C15_FilterIgnoresCoordinates ==
  [][lastOp'.name = "updateMonopileCoordinates" =>
       \A q \in RecordQueries :
         Range(SearchEffect(tableData'.rows, tableData.idColumnKey, q))
           = Range(SearchEffect(tableData.rows, tableData.idColumnKey, q))]_vars

(***************************************************************************)
(* SpecTable: table upload, identifier choice, search, sorting, row        *)
(* selection, placement and export, without a GeoJSON.                     *)
(***************************************************************************)
NextTable ==
  \/ SetSearchQuery
  \/ HandleTableFileUpload
  \/ HandleIdColumnSelect
  \/ HandleRowClick
  \/ MapClick
  \/ HandleHeaderClick
  \/ HandleDownload

SpecTable == Init /\ [][NextTable]_vars

\* the rows as the table shows them
ShownRows ==
  displayData(sortedData(tableData.rows, sortColumn, sortDirection),
              tableData.idColumnKey, filteredIds, searchQuery)

\* C16: an export serializes the full record sequence of the table in table
\* order, one line per record, whatever the search query, the filtered ids
\* and the sort state are; with an empty table nothing is exported and an
\* error is reported.
C16_ExportFullTable ==
  [][lastOp'.name = "handleDownload" =>
       IF tableData.rows = <<>>
       THEN /\ download' = download
            /\ "toast.error: No data to export" \in console'
       ELSE /\ download'.name = "monopile_data.csv"
            /\ DOMAIN download'.lines = DOMAIN tableData.rows
            /\ \A i \in DOMAIN tableData.rows :
                 \A j \in DOMAIN download'.fields :
                   download'.lines[i][j]
                     = Cell(Get(tableData.rows[i], download'.fields[j]))
            /\ download'.fields # <<>>]_vars

\* an export has produced both rows, A1 first, while the table shows only
\* the row of A2
C16_Witness ==
  /\ lastOp.name = "handleDownload"
  /\ Len(download.lines) = 2
  /\ download.lines[1][1] = <<"A", "1">>
  /\ download.lines[2][1] = <<"A", "2">>
  /\ Len(ShownRows) = 1
  /\ sortColumn # NoKey

\* an export of the empty table has been refused
C16_EmptyWitness ==
  /\ lastOp.name = "handleDownload"
  /\ tableData.rows = <<>>
  /\ download = NoDownload

(***************************************************************************)
(* SpecUpload: uploads of readable and unreadable files, the identifier    *)
(* dialogs and the widget's load event.                                    *)
(***************************************************************************)
NextUpload ==
  \/ HandleTableFileUpload
  \/ DropCorruptTableFile
  \/ HandleGeoJsonFileUpload
  \/ DropMalformedGeoJsonFile
  \/ HandleIdColumnSelect
  \/ HandleGeoJsonIdColumnSelect
  \/ MapLoad

SpecUpload == Init /\ [][NextUpload]_vars

\* the table upload of this file fails: its extension is not accepted or
\* the workbook reader cannot read it
TableUploadFails(file) ==
  \/ file.ext \notin {"csv", "xlsx", "xls"}
  \/ file.ext \in {"xlsx", "xls"} /\ ~file.parses

\* every toast.error of the source
ErrorToasts ==
  {"toast.error: Please upload a CSV or Excel file",
   "toast.error: Failed to parse the file. Please check the format.",
   "toast.error: Please upload a GeoJSON file",
   "toast.error: Failed to parse the GeoJSON file. Please check the format.",
   "toast.error: Error visualizing GeoJSON data",
   "toast.error: Error displaying GeoJSON data. Please check the file format.",
   "toast.error: No data to export",
   "toast.error: Failed to export data"}

\* C17: a failed table upload (extension not csv/xlsx/xls, or a parse
\* failure) leaves the previous table data unchanged and reports an error
\* notification.
C17_FailedTableUploadKeepsTable ==
  [][\A file \in TableFiles \cup CorruptTableFiles :
       (/\ lastOp'.name = "handleTableFileUpload"
        /\ lastOp'.key = file.name
        /\ TableUploadFails(file)) =>
         /\ tableData' = tableData
         /\ console' \cap ErrorToasts # {}]_vars

\* the unreadable workbook was dropped on a loaded table, which is still there
C17_Witness ==
  /\ lastOp = Op("handleTableFileUpload", "corrupt.xlsx", <<>>)
  /\ tableData.rows = <<Row(A1, Foo, Undefined, Undefined), Row(A2, Bar, Undefined, Undefined)>>
  /\ tableData.idColumnKey = "id"
  /\ "toast.error: Failed to parse the file. Please check the format." \in console

\* the GeoJSON upload of this file is malformed: it is not JSON, or it is
\* JSON without a `features` array
GeoJsonMalformed(file) == ~file.parses \/ ~HasFeatures(file.doc)

\* C18: a malformed GeoJSON upload (not JSON, or no `features` array) leaves
\* the previous GeoJSON collection and the column candidates unchanged, so it
\* does not bring the dashboard into the has-GeoJSON state.
C18_MalformedGeoJsonKeepsState ==
  [][\A file \in GeoJsonFiles \cup MalformedGeoJsonFiles :
       (/\ lastOp'.name = "handleGeoJsonFileUpload"
        /\ lastOp'.key = file.name
        /\ file.ext = "geojson"
        /\ GeoJsonMalformed(file)) =>
         /\ geoJsonData' = geoJsonData
         /\ geoJsonColumns' = geoJsonColumns]_vars

(***************************************************************************)
(* SpecAsync: table drops whose parses are in flight together and settle   *)
(* in any order, with the identifier dialog.                               *)
(***************************************************************************)
NextAsync ==
  \/ OnTableDrop
  \/ ResumeTableUpload
  \/ HandleIdColumnSelect

SpecAsync == Init /\ [][NextAsync]_vars

\* every call of handleTableFileUpload has resumed
AllSettled == \A i \in DOMAIN tableUploads : ~tableUploads[i].awaiting

\* C19: after two table uploads A then B whose parses complete in either
\* order, the table holds the data of B, the later upload: a stale
\* completion of A is not applied over B.
C19_LaterUploadWins ==
  (/\ Len(tableUploads) = 2
   /\ AllSettled
   /\ \A i \in DOMAIN tableUploads : ~parseFileData(tableUploads[i].file).throws)
  => /\ tableData.rows = tableUploads[2].file.rows
     /\ tableData.columns = parseFileData(tableUploads[2].file).data.columns

(***************************************************************************)
(* Readiness of the widget (SpecStyle).                                    *)
(***************************************************************************)
\* C20: no map mutation is applied to a widget that has not reported
\* readiness: a widget that is not loaded has the sources, layers, paint,
\* filters and camera it was created with, whatever uploads, identifier
\* choices and style changes were made before its load event; what was
\* requested earlier is applied by the load handler or not at all.
C20_UnloadedWidgetUntouched == ~map.loaded => map = createMap

\* a GeoJSON and placed rows are there and the point style was changed, all
\* before the widget reported `load`
C20_Witness ==
  /\ ~map.loaded
  /\ lastOp.name = "handleMonopileStyleChange"
  /\ monopileStyle # DefaultMonopileStyle
  /\ geoJsonData # NoGeoJson
  /\ tableData.idColumnKey = "id"
  /\ \E i \in DOMAIN tableData.rows : HasCoordinates(tableData.rows[i])

\* the load handler has applied what was requested before the load
C20_BufferedWitness ==
  /\ lastOp.name = "load"
  /\ getLayer(map, "monopile-layer")
  /\ getLayer(map, "geojson-line-layer")

(***************************************************************************)
(* SpecExtract: extractMonopilesFromGeoJson applied to every collection of *)
(* at most MaxFeatures features drawn from ExtractFeatures, with every     *)
(* choice of identifier property.                                          *)
(***************************************************************************)
ExtractFeatures ==
  { Feature(PointGeometry(<<49, 523>>), Props("id", A1)),
    Feature(PointGeometry(<<50, 530>>), Props("pid", A2)),
    Feature(PointGeometry(<<60, 400>>), Props("pid", Num(0))),
    Feature(PointGeometry(<<61, 401>>), Props("pid", Str(<<>>))),
    Feature(PointGeometry(<<62, 402>>), Props("id", Num(0))),
    Feature(PointGeometry(<<63, 403>>), Props("name", Foo)),
    Feature(PolygonGeometry(<<Ring>>), Props("id", A2)),
    Feature(NullGeometry, Props("id", A1)) }

ExtractKeys == {"id", "pid"}

InitExtract ==
  /\ InitTable
  /\ searchQuery = <<>>
  /\ tableData = [columns |-> <<>>, rows |-> <<>>, idColumnKey |-> NoKey]
  /\ \E fs \in SeqsUpTo(ExtractFeatures, MaxFeatures) : geoJsonData = FeatureCollection(fs)
  /\ geoJsonColumns = extractGeoJsonIdColumns(geoJsonData)
  /\ geoJsonIdColumn = NoKey
  /\ selectedMonopileId = Null
  /\ filteredIds = <<>>
  /\ selectedMapStyle = "osm-carto"
  /\ geoJsonStyle = DefaultGeoJsonStyle
  /\ monopileStyle = DefaultMonopileStyle
  /\ map = createMap
  /\ closure = CurrentProps
  /\ lastOp = Op("mount", "", <<>>)
  /\ console = {}

\* extractMonopilesFromGeoJson(geoJsonData, key), the table keeping the result
CallExtractMonopilesFromGeoJson ==
  \E key \in ExtractKeys :
    /\ ~extractMonopilesFromGeoJson(geoJsonData, key).throws
    /\ tableData' = [tableData EXCEPT
                       !.rows = extractMonopilesFromGeoJson(geoJsonData, key).result]
    /\ lastOp' = Op("extractMonopilesFromGeoJson", key, <<>>)
    /\ UNCHANGED <<searchQuery, geoJsonData, geoJsonColumns, geoJsonIdColumn,
                   selectedMonopileId, filteredIds, mapStateVars, tableVars, tableUploads,
                   map, closure, console>>

NextExtract == CallExtractMonopilesFromGeoJson

SpecExtract == InitExtract /\ [][NextExtract]_vars

\* the Point-geometry features of the collection, in feature order
PointFeatures(geojson) ==
  SelectSeq(geojson.features, LAMBDA f : f.geometry.type = "Point")

\* the value is there: anything but null and undefined
Present(v) == v # Undefined /\ v # Null

\* C21: extractMonopilesFromGeoJson returns, in feature order, exactly one
\* linked point per Point-geometry feature and none for other geometries;
\* each point has lat = coordinates[1], lng = coordinates[0], all feature
\* properties, and id = properties[key] whenever that property is present
\* (0 and the empty string included), 'unknown' only when it is absent.
C21_ExtractedPoints ==
  [][lastOp'.name = "extractMonopilesFromGeoJson" =>
       LET points == PointFeatures(geoJsonData)
           result == tableData'.rows
       IN /\ Len(result) = Len(points)
          /\ \A i \in DOMAIN points :
               LET properties == points[i].properties IN
               /\ result[i]["lat"] = Num(Position(points[i].geometry)[2])
               /\ result[i]["lng"] = Num(Position(points[i].geometry)[1])
               /\ \A k \in Keys \ {"lat", "lng", "id"} : result[i][k] = properties[k]
               /\ result[i]["id"] =
                    IF properties["id"] # Undefined THEN properties["id"]
                    ELSE IF Present(Get(properties, lastOp'.key))
                      THEN Get(properties, lastOp'.key)
                    ELSE Str(Chars_unknown)]_vars

(***************************************************************************)
(* Linking and extraction failures (SpecLink).                             *)
(***************************************************************************)
\* the collection has a Point feature with fewer than 2 coordinate components
HasShortPoint(geojson) ==
  \E i \in DOMAIN geojson.features :
    /\ geojson.features[i].geometry.type = "Point"
    /\ Len(Position(geojson.features[i].geometry)) < 2

\* this step is an identifier dialog confirming key k under the conditions
\* in which the handler links
LinkAttempt(k) ==
  /\ \/ /\ lastOp'.name = "handleIdColumnSelect"
        /\ geoJsonData # NoGeoJson
        /\ geoJsonIdColumn = k
     \/ /\ lastOp'.name = "handleGeoJsonIdColumnSelect"
        /\ k # NoKey
        /\ tableData.idColumnKey = k
        /\ tableData.rows # <<>>
  /\ lastOp'.key = k

\* C22: linking a collection that contains a Point feature with fewer than
\* 2 coordinate components fails, merges no coordinates from the collection
\* into the table rows, and shows the user an error notification.
C22_ShortPointFailsVisibly ==
  [][\A k \in Keys :
       (LinkAttempt(k) /\ HasShortPoint(geoJsonData)) =>
         /\ tableData'.rows = tableData.rows
         /\ console' \cap ErrorToasts # {}]_vars

\* the part of C22 the code has: the link fails and merges nothing
C22_ShortPointMergesNothing ==
  [][\A k \in Keys :
       (LinkAttempt(k) /\ HasShortPoint(geoJsonData)) =>
         /\ tableData'.rows = tableData.rows
         /\ "uncaught: Invalid point coordinates in GeoJSON" \in console']_vars

(***************************************************************************)
(* SpecCsv: the CSV branch of parseFileData applied to every CSV text with *)
(* a header from CsvHeaders and at most MaxRows data rows.                 *)
(***************************************************************************)
CsvHeaders == {<<"id", "name">>, <<"name", "id">>, <<"id">>}

CsvCells == {<<"A", "1">>, <<>>}

\* a CSV text: its header, its data rows (one cell per header field) and
\* whether the text ends with a line break
CsvFiles ==
  UNION { { [header |-> h, lines |-> ls, trailingNewline |-> nl] :
              ls \in SeqsUpTo([DOMAIN h -> CsvCells], MaxRows), nl \in BOOLEAN } :
          h \in CsvHeaders }

\* the object Papa.parse builds for one line under `header: true`
CsvRecord(header, cells) ==
  [k \in Keys |->
     IF \E j \in DOMAIN cells : j \in DOMAIN header /\ header[j] = k
     THEN Str(cells[CHOOSE j \in DOMAIN cells : j \in DOMAIN header /\ header[j] = k])
     ELSE Undefined]

\* results.data: skipEmptyLines is not set, so the empty line after a final
\* line break is parsed as a row with one empty field
PapaParse(csv) ==
  [i \in DOMAIN csv.lines |-> CsvRecord(csv.header, csv.lines[i])]
    \o (IF csv.trailingNewline THEN <<CsvRecord(csv.header, << <<>> >>)>> ELSE <<>>)

\* Object.keys of a record Papa built: its fields in header order
FieldsOf(header, record) == SelectSeq(header, LAMBDA k : record[k] # Undefined)

\* the value the promise of the CSV branch resolves with
ParseCsv(csv) ==
  [columns |-> IF PapaParse(csv) = <<>> THEN <<>>
               ELSE FieldsOf(csv.header, PapaParse(csv)[1]),
   rows |-> PapaParse(csv),
   idColumnKey |-> NoKey]

InitCsv ==
  /\ InitApp
  /\ map = createMap
  /\ closure = CurrentProps
  /\ lastOp = Op("mount", "", <<>>)
  /\ console = {}

\* a CSV file is dropped: handleTableFileUpload awaits its parse
DropCsvFile ==
  \E csv \in CsvFiles :
    /\ tableUploads = <<>>
    /\ NotRendered(Op("onTableDrop", "csv", <<>>), {},
                   <<[file |-> csv, awaiting |-> TRUE]>>)

\* the parse completes and setTableData installs its result
ResumeCsvUpload ==
  /\ tableUploads # <<>>
  /\ tableUploads[1].awaiting
  /\ Rendered(Op("handleTableFileUpload", "csv", <<>>), searchQuery,
              ParseCsv(tableUploads[1].file), geoJsonData, geoJsonColumns,
              geoJsonIdColumn, selectedMonopileId, {},
              <<[file |-> tableUploads[1].file, awaiting |-> FALSE]>>)

NextCsv ==
  \/ DropCsvFile
  \/ ResumeCsvUpload

SpecCsv == InitCsv /\ [][NextCsv]_vars

\* C23: parsing a valid CSV with a header of width W and N data rows yields
\* exactly N records and exactly W columns in header order, for every
\* N >= 0: the columns are those of the header even without data rows.
C23_CsvShape ==
  [][lastOp'.name = "handleTableFileUpload" =>
       /\ Len(tableData'.rows) = Len(tableUploads[1].file.lines)
       /\ tableData'.columns = tableUploads[1].file.header]_vars

\* the part of C23 the code has: a text with at least one data row and no
\* final line break yields its N records and its W columns in header order
C23_CsvShapeWithRows ==
  [][(/\ lastOp'.name = "handleTableFileUpload"
      /\ tableUploads[1].file.lines # <<>>
      /\ ~tableUploads[1].file.trailingNewline) =>
       /\ Len(tableData'.rows) = Len(tableUploads[1].file.lines)
       /\ tableData'.columns = tableUploads[1].file.header]_vars

(***************************************************************************)
(* SpecPoints: addMonopiles and the add-monopiles effect of Map applied to *)
(* tables whose records lie on and off the equator and the prime meridian. *)
(***************************************************************************)
PointPool ==
  { Row(A1, Foo, Num(523), Num(49)),
    Row(A2, Bar, Num(0), Num(50)),
    Row(A2, Foo, Num(523), Num(0)),
    Row(A1, Bar, Undefined, Undefined),
    Row(A2, Bar, Num(530), Undefined) }

InitPoints ==
  /\ InitTable
  /\ searchQuery = <<>>
  /\ \E rows \in SeqsUpTo(PointPool, MaxRows) :
       tableData = [columns |-> IF rows = <<>> THEN <<>> ELSE ObjectKeys(rows[1]),
                    rows |-> rows, idColumnKey |-> "id"]
  /\ geoJsonData = NoGeoJson
  /\ geoJsonColumns = <<>>
  /\ geoJsonIdColumn = NoKey
  /\ selectedMonopileId = Null
  /\ filteredIds = <<>>
  /\ selectedMapStyle = "osm-carto"
  /\ geoJsonStyle = DefaultGeoJsonStyle
  /\ monopileStyle = DefaultMonopileStyle
  /\ map = [setMapStyle(createMap, "osm-carto") EXCEPT !.loaded = TRUE]
  /\ closure = CurrentProps
  /\ lastOp = Op("load", "", <<>>)
  /\ console = {}

\* addMonopiles called with the records of the table
CallAddMonopilesOfTable ==
  \E style \in MonopileStyles :
    MapCall("addMonopiles", "id", <<>>,
            addMonopiles(map, tableData.rows, "id", style), {})

\* the add-monopiles effect of Map runs for the current props
RunAddMonopilesEffect ==
  MapCall("addMonopilesEffect", "id", <<>>,
          AddMonopilesEffect(R(map, {}), CurrentProps, AddMonopilesDeps).map, {})

NextPoints ==
  \/ CallAddMonopilesOfTable
  \/ RunAddMonopilesEffect
  \/ MoveCamera

SpecPoints == InitPoints /\ [][NextPoints]_vars

\* lat and lng are both present and numeric
NumericCoordinates(monopile) ==
  monopile["lat"].t = "number" /\ monopile["lng"].t = "number"

\* the features of the source 'monopile-data' are those of these records
MonopileSourceHolds(m, monopiles) ==
  /\ getSource(m, "monopile-data")
  /\ m.sources["monopile-data"].data.features
       = [i \in DOMAIN monopiles |-> MonopileFeature(monopiles[i], "id")]

\* C24: the monopile point layer contains exactly the records whose lat and
\* lng are both present and numeric: a record at lat = 0 or lng = 0 is in
\* the source addMonopiles builds and counts as having coordinates for Map.
C24_NumericCoordinatesShown ==
  [][/\ lastOp'.name = "addMonopiles" =>
          MonopileSourceHolds(map', SelectSeq(tableData.rows, NumericCoordinates))
     /\ (/\ lastOp'.name = "addMonopilesEffect"
         /\ \E i \in DOMAIN tableData.rows : NumericCoordinates(tableData.rows[i])) =>
          MonopileSourceHolds(map', SelectSeq(tableData.rows, NumericCoordinates))]_vars

\* what the code has: the records whose lat and lng are both truthy
C24_TruthyCoordinatesShown ==
  [][/\ lastOp'.name = "addMonopiles" =>
          MonopileSourceHolds(map', SelectSeq(tableData.rows, HasCoordinates))
     /\ (/\ lastOp'.name = "addMonopilesEffect"
         /\ \E i \in DOMAIN tableData.rows : HasCoordinates(tableData.rows[i])) =>
          MonopileSourceHolds(map', SelectSeq(tableData.rows, HasCoordinates))]_vars

\* the rows of the sorted table whose identifier is one of the filtered ids
RowsInFilteredSet(data, idColumnKey, ids) ==
  SelectSeq(data, LAMBDA row : \E i \in DOMAIN ids : ids[i] = Get(row, idColumnKey))

\* C25: the table view tells "no active filter" from "matched zero": it shows
\* all rows when the query is empty or no identifier column is set, and for
\* a non-empty query exactly the rows whose identifier is in the filtered
\* set, which is no row at all when nothing matches.
C25_ZeroMatchesShowsNothing ==
  [][lastOp'.name = "searchEffect" =>
       IF searchQuery' = <<>> \/ tableData.idColumnKey = NoKey
       THEN ShownRows' = sortedData(tableData.rows, sortColumn, sortDirection)
       ELSE ShownRows' = RowsInFilteredSet(sortedData(tableData.rows, sortColumn,
                                                      sortDirection),
                                           tableData.idColumnKey, filteredIds')]_vars

\* what the code has: the claimed rows whenever the filtered set is not empty
C25_SomeMatchesShowsThem ==
  [][(lastOp'.name = "searchEffect" /\ filteredIds' # <<>>) =>
       ShownRows' = RowsInFilteredSet(sortedData(tableData.rows, sortColumn,
                                                 sortDirection),
                                      tableData.idColumnKey, filteredIds')]_vars

\* after this identifier dialog both identifier columns are chosen and are
\* k, a GeoJSON is loaded and the table is not empty
BothChosen(k) ==
  /\ SelectStep(k)
  /\ k # NoKey
  /\ geoJsonData # NoGeoJson
  /\ tableData'.rows # <<>>
  /\ tableData'.idColumnKey = k
  /\ geoJsonIdColumn' = k

\* every Point feature of the loaded GeoJSON has a longitude and a latitude
AllPointsComplete ==
  \A i \in DOMAIN geoJsonData.features :
    geoJsonData.features[i].geometry.type = "Point"
      => Len(Position(geoJsonData.features[i].geometry)) >= 2

\* every row whose identifier some Point feature carries has the lat and lng
\* of such a feature
RowsLinked(rows, k) ==
  \A i \in DOMAIN rows :
    PointsMatching(rows[i], k) # {}
      => \E j \in PointsMatching(rows[i], k) :
           HasCoordinatesOf(rows[i], geoJsonData.features[j])

\* C26 as stated: once a GeoJSON is loaded, the table is not empty and both
\* identifier columns are chosen and equal, whichever was chosen last, every
\* row whose identifier is that of some Point feature has its lat and lng.
C26_LinkedWhicheverLast ==
  [][\A k \in Keys : BothChosen(k) => RowsLinked(tableData'.rows, k)]_vars

\* C26 amended: the same for a GeoJSON all of whose Point features have at
\* least two coordinates; with a shorter Point in the collection the link
\* fails and no row receives coordinates.
C26_LinkedWhicheverLastComplete ==
  [][\A k \in Keys :
       (BothChosen(k) /\ AllPointsComplete) => RowsLinked(tableData'.rows, k)]_vars

\* the GeoJSON identifier was chosen first and the table identifier last,
\* and row A1 has the coordinates of its point
C26_Witness ==
  /\ lastOp.name = "handleIdColumnSelect"
  /\ lastOp.key = "id"
  /\ geoJsonIdColumn = "id"
  /\ tableData.idColumnKey = "id"
  /\ geoJsonData = IdDocument
  /\ tableData.rows = <<Row(A1, Foo, Num(523), Num(49)), Row(A2, Bar, Undefined, Undefined)>>

\* the other order: the table identifier first, the GeoJSON identifier last
C26_OtherOrderWitness ==
  /\ lastOp.name = "handleGeoJsonIdColumnSelect"
  /\ lastOp.key = "id"
  /\ geoJsonIdColumn = "id"
  /\ tableData.idColumnKey = "id"
  /\ geoJsonData = IdDocument
  /\ tableData.rows = <<Row(A1, Foo, Num(523), Num(49)), Row(A2, Bar, Undefined, Undefined)>>

\* the paint properties of the overlay layers and of the monopile layer of
\* widget m are the ones the styles gs and ms give
StylesApplied(m, gs, ms) ==
  /\ updateGeoJsonStyle(m, gs) = m
  /\ updateMonopileStyle(m, ms) = m

\* C27: style changes are last-write-wins and eventually applied: whatever
\* overlay and point style changes were made, before or after the load of
\* the map, a loaded map at rest paints the overlay layers and the monopile
\* layer with the most recently selected styles.
C27_LatestStylesApplied ==
  map.loaded => StylesApplied(map, geoJsonStyle, monopileStyle)

\* the part of C27 the code has: a style changed on a loaded map is applied
C27_LoadedStyleChangeApplied ==
  [][(/\ lastOp'.name \in {"handleGeoJsonStyleChange", "handleMonopileStyleChange"}
      /\ map.loaded
      /\ StylesApplied(map, geoJsonStyle, monopileStyle)) =>
       StylesApplied(map', geoJsonStyle', monopileStyle')]_vars

(***************************************************************************)
(* SpecSources: setMapStyle, addGeoJsonLayer and addMonopiles called in    *)
(* any order on the loaded widget createMap returned; geoJsonData and the  *)
(* rows of tableData keep the argument of the most recent load call.       *)
(***************************************************************************)
InitSources ==
  /\ InitApp
  /\ map = [createMap EXCEPT !.loaded = TRUE]
  /\ closure = CurrentProps
  /\ lastOp = Op("mount", "", <<>>)
  /\ console = {}

LoadOverlayData ==
  \E geojson \in OverlayCatalogue, style \in GeoJsonStyles :
    /\ map' = addGeoJsonLayer(map, geojson, style).map
    /\ console' = addGeoJsonLayer(map, geojson, style).log
    /\ geoJsonData' = geojson
    /\ lastOp' = Op("addGeoJsonLayer", "", <<>>)
    /\ UNCHANGED <<searchQuery, tableData, geoJsonColumns, geoJsonIdColumn,
                   selectedMonopileId, filteredIds, mapStateVars, tableVars,
                   tableUploads, closure>>

LoadMonopileData ==
  \E monopiles \in MonopileCatalogue, style \in MonopileStyles :
    /\ map' = addMonopiles(map, monopiles, "id", style)
    /\ console' = {}
    /\ tableData' = [tableData EXCEPT !.rows = monopiles]
    /\ lastOp' = Op("addMonopiles", "id", <<>>)
    /\ UNCHANGED <<searchQuery, geoJsonData, geoJsonColumns, geoJsonIdColumn,
                   selectedMonopileId, filteredIds, mapStateVars, tableVars,
                   tableUploads, closure>>

NextSources ==
  \/ CallSetMapStyle
  \/ LoadOverlayData
  \/ LoadMonopileData

SpecSources == InitSources /\ [][NextSources]_vars

\* the layers each named source is paired with
OwnLayers(sourceId) ==
  IF sourceId = "geojson-data"
    THEN {"geojson-fill-layer", "geojson-line-layer", "geojson-point-layer"}
  ELSE IF sourceId = "monopile-data" THEN {"monopile-layer"}
  ELSE {"osm-layer"}

LayersOn(m, sourceId) ==
  {m.layers[i].id : i \in {j \in DOMAIN m.layers : m.layers[j].source = sourceId}}

\* C28: after any sequence of setMapStyle, addGeoJsonLayer and addMonopiles
\* every layer id occurs once, a source that exists has exactly its own
\* layers and a source that does not exist has none, the overlay source and
\* the monopile source hold the data of the most recent load call, and no
\* call has removed a missing layer or source or added an existing one.
C28_SourceLayerPairing ==
  /\ map.errors = {}
  /\ \A i, j \in DOMAIN map.layers : map.layers[i].id = map.layers[j].id => i = j
  /\ \A s \in SourceNames :
       LayersOn(map, s) = IF getSource(map, s) THEN OwnLayers(s) ELSE {}
  /\ geoJsonData # NoGeoJson
       => /\ getSource(map, "geojson-data")
          /\ map.sources["geojson-data"].data = geoJsonData
  /\ tableData.rows # <<>>
       => /\ getSource(map, "monopile-data")
          /\ map.sources["monopile-data"].data
               = createGeoJsonFromMonopiles(tableData.rows, "id")

\* the three functions have been called: all three sources exist with their
\* five layers, the data sources holding two features each
C28_Witness ==
  /\ \A s \in SourceNames : getSource(map, s)
  /\ lastOp.name = "addMonopiles"
  /\ Len(tableData.rows) = 2
  /\ Len(geoJsonData.features) = 2
  /\ Len(map.layers) = 5

(***************************************************************************)
(* SpecReplace: uploads of tables and of GeoJSON files, among them a file  *)
(* whose JSON text is `null`, with the identifier dialogs, the search box, *)
(* row selection and map clicks.                                           *)
(***************************************************************************)
\* a .geojson file holding the JSON text `null`: JSON.parse returns null
NullGeoJsonFiles ==
  { [name |-> "null.geojson", ext |-> "geojson", parses |-> TRUE, doc |-> NoGeoJson] }

DropNullGeoJsonFile == \E file \in NullGeoJsonFiles : UploadGeoJsonFile(file)

NextReplace ==
  \/ HandleTableFileUpload
  \/ HandleGeoJsonFileUpload
  \/ DropMalformedGeoJsonFile
  \/ DropNullGeoJsonFile
  \/ HandleIdColumnSelect
  \/ HandleGeoJsonIdColumnSelect
  \/ SetSearchQuery
  \/ HandleRowClick
  \/ MapClick

SpecReplace == Init /\ [][NextReplace]_vars

\* C29: having a GeoJSON is irreversible: once a GeoJSON upload has
\* succeeded, no table upload, GeoJSON upload, identifier choice, search,
\* row selection or map click returns to the state without a GeoJSON, and
\* row selection and map clicks change no coordinates from then on.
C29_GeoJsonIrreversible ==
  [][HasFeatures(geoJsonData) =>
       /\ geoJsonData' # NoGeoJson
       /\ lastOp'.name \in {"handleRowClick", "mapClick"}
            => tableData'.rows = tableData.rows]_vars

\* what the code has: every operation other than a GeoJSON upload keeps the
\* loaded GeoJSON, and while one is loaded row selection and map clicks
\* change no coordinates
C29_OnlyUploadsReplace ==
  [][geoJsonData # NoGeoJson =>
       /\ lastOp'.name # "handleGeoJsonFileUpload" => geoJsonData' = geoJsonData
       /\ lastOp'.name \in {"handleRowClick", "mapClick"}
            => tableData'.rows = tableData.rows]_vars

\* the identifier dialog was just confirmed while the parse of the most
\* recently dropped file was pending, and this step is that parse settling
\* into setTableData
LateParse ==
  /\ lastOp.name = "handleIdColumnSelect"
  /\ tableUploads # <<>>
  /\ tableUploads[Len(tableUploads)].awaiting
  /\ ~tableUploads'[Len(tableUploads)].awaiting
  /\ ~parseFileData(tableUploads[Len(tableUploads)].file).throws

\* C30: a confirmed identifier column is not lost to a late parse: when the
\* dialog is confirmed before the parse of the dropped file completes, the
\* table still has the confirmed column as its identifier column after the
\* parse has completed.
C30_ConfirmedColumnSurvivesParse ==
  [][LateParse => tableData'.idColumnKey = lastOp.key]_vars

\* the order the code handles: a confirmation that follows the parse sets
\* the identifier column, and nothing but a parse result clears it
C30_ConfirmedColumnKeptAfterParse ==
  [][/\ lastOp'.name = "handleIdColumnSelect" => tableData'.idColumnKey = lastOp'.key
     /\ (tableData.idColumnKey # NoKey /\ tableData'.idColumnKey = NoKey)
          => lastOp'.name = "handleTableFileUpload"]_vars

====
